---- MODULE Spec2Model ----
(***************************************************************************)
(* Model of the XTC/XTG conversion server: the chapter-number classifier,  *)
(* the XTG page encoders, the two XTC container builders, the zoom band    *)
(* computation, the long-strip windows, the conversion of a chapter and    *)
(* of a chapter map, the polling for a converted EPUB and the settings.    *)
(*                                                                         *)
(* Strings are sequences of one-character strings, byte strings are        *)
(* sequences of integers 0..255.                                           *)
(***************************************************************************)
EXTENDS Integers, Sequences, FiniteSets, TLC

VARIABLES
    \* classify_cbz_files (manga_formatter/converter.py)
    cbz_paths,      \* the argument: a list of paths
    pos,            \* index of the next path the for loop takes
    recognized,     \* dict chapter number -> path
    unrecognized,   \* list of paths
    \* build_xtc (manga_formatter/xtc.py), build_book_xtc (book_converter)
    kind,           \* "manga": build_xtc, "book": build_book_xtc
    pages,          \* the argument pil_images / pages
    size,           \* the argument force_size / size
    metadata,       \* the argument metadata (book)
    chapters,       \* the argument chapters (book)
    bpc,            \* where the call is
    metadata_block, \* locals of the builders
    chapter_block,
    xtg_blobs,
    index_table,
    parts,          \* the byte strings handed to f.write, in order
    wi,             \* index of the next of parts to write
    fs,             \* the content of the file at out_path, or NoFile
    wrote,          \* for each f.write done: the region and where it landed
    run,            \* 1: first build of the inputs, 2: second build
    first_out,      \* the file the first build wrote
    \* _process_zoom_page (manga_formatter/converter.py)
    zsettings,      \* settings: target_width, target_height
    zimg,           \* img.size: width, height
    zpc,            \* where the call is
    num_segments,
    shift,          \* a fraction <<numerator, denominator>>
    segments,       \* the <<top, bottom>> of the crops made so far
    \* extract_chapter_number (manga_formatter/converter.py)
    ecn_in,         \* the argument: a file name
    ecn_out,        \* the pair returned
    epc,            \* where the call is
    \* convert_chapters (manga_formatter/converter.py)
    chapter_map,    \* the argument: dict chapter number -> path
    events,         \* the status events yielded so far
    converted,      \* the chapter numbers convert_chapter has returned for
    cpc,            \* where the generator is
    \* _process_long_strip (manga_formatter/converter.py)
    strip_settings, \* settings: target_width, target_height, overlap
    strip_images,   \* the argument images, after grayscale and contrast
    img_metadata,   \* the scaled images with start_y, end_y, h
    current_y,
    strip_pages,    \* the canvases appended to segments
    spc,            \* where the call is
    \* convert_chapter, long_strip off (manga_formatter/converter.py)
    archive,        \* the entries of the .cbz: name -> what decoding gives
    images,         \* what _extract_images returned: the names, in order
    main_xtc,       \* the pages of main_NNNN.xtc once written
    zoom_xtcs,      \* the zoom containers written so far
    hpc,            \* where the call is
    \* convert_pdf_to_epub (book_converter/converter.py)
    poll_interval,  \* the argument poll_interval
    timeout,        \* the argument timeout
    elapsed,        \* the local elapsed
    polls,          \* the looks at the output file so far
    epub_out,       \* the output file: "absent", "empty" or "ready"
    ppc,            \* where the call is
    \* _parse_settings (manga_formatter/converter.py)
    raw,            \* the argument raw
    parsed,         \* the dict returned
    qpc,            \* where the call is
    \* render_book (book_converter/converter.py)
    chapters_data,  \* the chapters of parsed: what rendering each gives
    ch_idx,         \* the chapter of the last progress event, from 1
    all_pages,      \* len(all_pages)
    render_dir,     \* the temporary directory: "none", "exists", "removed"
    rpc,            \* where the generator is
    \* convert_chapter, long_strip on (manga_formatter/converter.py)
    heap,           \* the settings dicts: reference -> dict
    s_ref,          \* the reference in s
    zoom_ref,       \* the reference in zoom_settings, 0 before
    stretched,      \* for each image the contrast levels it was stretched with
    long_pages,     \* the number of pages of the strip
    zoomed,         \* the pages the zoom loop has done
    lpc,            \* where the call is
    \* convert_continue (manga_formatter/routes.py, app.py)
    variant,        \* "routes" or "app": which convert_continue
    session,        \* recognized and unrecognized of the stored session
    assignments,    \* the items of assignments, in order
    final_map,      \* the chapter map that is converted
    adone,          \* the items the loop has done
    kpc,            \* where the request is
    \* _stream_conversion, _stream_epub_to_xtc (routes.py)
    skind,          \* "manga" or "book": which stream
    s_total,        \* the number of chapters
    s_conv,         \* the chapters converted or rendered
    emitted,        \* the types of the events yielded
    zipped,         \* the zip or the container is written
    stored,         \* zip_path and manga_title are in the session
    tpc,            \* where the generator is
    \* calls of convert_pdf_to_epub on one folder (book_converter)
    pdf_name,       \* call -> base name of its PDF
    input_dir,      \* input/: name -> the call that staged the file
    output_dir,     \* output/: name -> the call whose PDF the EPUB is of
    call_pc,        \* call -> where it is
    call_looks,     \* call -> looks at the output so far
    call_result,    \* call -> the EPUB returned
    \* the builders by counts (xtc.py, book_converter/converter.py)
    c_kind,         \* "manga": build_xtc, "book": build_book_xtc
    n_pages,        \* len(pages)
    c_chapters,     \* the chapter records of a book
    n_blobs,        \* len(xtg_blobs), the blobs in blob_data
    index_len,      \* len(index_table)
    packed,         \* the pageCount field of the packed header
    c_file,         \* the output file: its pageCount field, index bytes, blobs
    npc,            \* where the call is
    \* the /convert request (manga_formatter/routes.py, app.py)
    handler,        \* "routes": modules/manga_formatter/routes.py, "app": app.py
    source_mode,    \* request.form source_mode
    host_cbz,       \* the .cbz files of host_path, NoHostDir if it is no directory
    req_files,      \* the file names of request.files.getlist("cbz_files")
    cbz_count,      \* len(cbz_paths)
    work_dir,       \* the temporary directory: "none", "exists", "removed"
    in_session,     \* a session of _sessions holds work_dir
    http_status,    \* the status of the response, NoResponse before
    mpc             \* where the request is

clsVars == <<cbz_paths, pos, recognized, unrecognized>>

bldVars == <<kind, pages, size, metadata, chapters, bpc, metadata_block,
             chapter_block, xtg_blobs, index_table, parts, wi, fs, wrote,
             run, first_out>>

zoomVars == <<zsettings, zimg, zpc, num_segments, shift, segments>>

vars == <<cbz_paths, pos, recognized, unrecognized,
          kind, pages, size, metadata, chapters, bpc, metadata_block,
          chapter_block, xtg_blobs, index_table, parts, wi, fs, wrote,
          run, first_out,
          zsettings, zimg, zpc, num_segments, shift, segments,
          ecn_in, ecn_out, epc,
          chapter_map, events, converted, cpc,
          strip_settings, strip_images, img_metadata, current_y,
          strip_pages, spc,
          archive, images, main_xtc, zoom_xtcs, hpc,
          poll_interval, timeout, elapsed, polls, epub_out, ppc,
          raw, parsed, qpc,
          chapters_data, ch_idx, all_pages, render_dir, rpc,
          heap, s_ref, zoom_ref, stretched, long_pages, zoomed, lpc,
          variant, session, assignments, final_map, adone, kpc,
          skind, s_total, s_conv, emitted, zipped, stored, tpc,
          pdf_name, input_dir, output_dir, call_pc, call_looks, call_result,
          c_kind, n_pages, c_chapters, n_blobs, index_len, packed, c_file,
          npc,
          handler, source_mode, host_cbz, req_files, cbz_count, work_dir,
          in_session, http_status, mpc>>

exVars == <<ecn_in, ecn_out, epc>>

\* the variables of the calls modelled further down
evtVars == <<chapter_map, events, converted, cpc>>

stripVars == <<strip_settings, strip_images, img_metadata, current_y,
               strip_pages, spc>>

chapVars == <<archive, images, main_xtc, zoom_xtcs, hpc>>

\* the variables of the later sections
pollVars == <<poll_interval, timeout, elapsed, polls, epub_out, ppc>>

setVars == <<raw, parsed, qpc>>

\* the variables of the last sections
renderVars == <<chapters_data, ch_idx, all_pages, render_dir, rpc>>

longVars == <<heap, s_ref, zoom_ref, stretched, long_pages, zoomed, lpc>>

contVars == <<variant, session, assignments, final_map, adone, kpc>>

streamVars == <<skind, s_total, s_conv, emitted, zipped, stored, tpc>>

sharedVars == <<pdf_name, input_dir, output_dir, call_pc, call_looks,
                call_result>>

countVars == <<c_kind, n_pages, c_chapters, n_blobs, index_len, packed,
               c_file, npc>>

requestVars == <<handler, source_mode, host_cbz, req_files, cbz_count,
                 work_dir, in_session, http_status, mpc>>

lastVars == <<renderVars, longVars, contVars, streamVars, sharedVars,
              countVars, requestVars>>

outsideRender == <<clsVars, bldVars, zoomVars, exVars, evtVars, stripVars,
                   chapVars, pollVars, setVars, longVars, contVars,
                   streamVars, sharedVars, countVars, requestVars>>

outsideLong == <<clsVars, bldVars, zoomVars, exVars, evtVars, stripVars,
                 chapVars, pollVars, setVars, renderVars, contVars,
                 streamVars, sharedVars, countVars, requestVars>>

outsideContinue == <<clsVars, bldVars, zoomVars, exVars, evtVars, stripVars,
                     chapVars, pollVars, setVars, renderVars, longVars,
                     streamVars, sharedVars, countVars, requestVars>>

outsideStream == <<clsVars, bldVars, zoomVars, exVars, evtVars, stripVars,
                   chapVars, pollVars, setVars, renderVars, longVars,
                   contVars, sharedVars, countVars, requestVars>>

outsideShared == <<clsVars, bldVars, zoomVars, exVars, evtVars, stripVars,
                   chapVars, pollVars, setVars, renderVars, longVars,
                   contVars, streamVars, countVars, requestVars>>

outsideCount == <<clsVars, bldVars, zoomVars, exVars, evtVars, stripVars,
                  chapVars, pollVars, setVars, renderVars, longVars, contVars,
                  streamVars, sharedVars, requestVars>>

outsideRequest == <<clsVars, bldVars, zoomVars, exVars, evtVars, stripVars,
                    chapVars, pollVars, setVars, renderVars, longVars,
                    contVars, streamVars, sharedVars, countVars>>

lateVars == <<chapVars, pollVars, setVars>>

moreVars == <<exVars, evtVars, stripVars, lateVars, lastVars>>

----------------------------------------------------------------------------
(* Generic helpers *)

Min(a, b) == IF a <= b THEN a ELSE b

Range(s) == {s[i] : i \in 1..Len(s)}

\* s[a..b-1] (1-based, b exclusive), the slice s[a-1:b-1] of Python
Slice(s, a, b) == SubSeq(s, a, b - 1)

\* Python's None, where a chapter number (never negative) is expected
None == -1

----------------------------------------------------------------------------
(* Regular expressions of the classifier, over sequences of characters *)

\* \d
IsDigit(c) == c \in {"0", "1", "2", "3", "4", "5", "6", "7", "8", "9"}

\* \s
IsSpace(c) == c \in {" "}

\* [._-]
IsSep(c) == c \in {".", "_", "-"}

DigitVal(c) ==
    CASE c = "0" -> 0 [] c = "1" -> 1 [] c = "2" -> 2 [] c = "3" -> 3
      [] c = "4" -> 4 [] c = "5" -> 5 [] c = "6" -> 6 [] c = "7" -> 7
      [] c = "8" -> 8 [] c = "9" -> 9

\* re.IGNORECASE, for the letters of the model's alphabet
Lower(c) ==
    CASE c = "C" -> "c" [] c = "H" -> "h" [] c = "V" -> "v"
      [] c = "B" -> "b" [] OTHER -> c

\* first index >= i at which s has no digit (Len(s)+1 at the end): \d+ is greedy
RECURSIVE SkipDigits(_, _)
SkipDigits(s, i) ==
    IF i <= Len(s) /\ IsDigit(s[i]) THEN SkipDigits(s, i + 1) ELSE i

\* first index >= i at which s has no white space: \s* is greedy
RECURSIVE SkipSpaces(_, _)
SkipSpaces(s, i) ==
    IF i <= Len(s) /\ IsSpace(s[i]) THEN SkipSpaces(s, i + 1) ELSE i

\* the literal kw matches s at index i, ignoring case
LitAt(s, i, kw) ==
    /\ i + Len(kw) - 1 <= Len(s)
    /\ \A j \in 1..Len(kw) : Lower(s[i + j - 1]) = kw[j]

\* end (exclusive) of \d+(?:\.\d+)? matched at d, where s[d] is a digit
NumEnd(s, d) ==
    LET e == SkipDigits(s, d)
    IN  IF e + 1 <= Len(s) /\ s[e] = "." /\ IsDigit(s[e + 1])
        THEN SkipDigits(s, e + 1)
        ELSE e

\* \s*[._-]?\s* matched at i: the index where the number has to start
TailStart(s, i) ==
    LET a == SkipSpaces(s, i)
        b == IF a <= Len(s) /\ IsSep(s[a]) THEN a + 1 ELSE a
    IN  SkipSpaces(s, b)

\* kw\s*[._-]?\s*(\d+(?:\.\d+)?) matches s at index i
KwNumAt(s, i, kw) ==
    /\ LitAt(s, i, kw)
    /\ LET d == TailStart(s, i + Len(kw))
       IN  d <= Len(s) /\ IsDigit(s[d])

\* group(1) of the match of kw... at i
KwNumGroup(s, i, kw) ==
    LET d == TailStart(s, i + Len(kw))
    IN  Slice(s, d, NumEnd(s, d))

\* no match of a search: group(1) of a match has at least one digit
NoMatch == <<>>

\* pat.search(base): the leftmost match, as its group(1), or NoMatch
PatSearch(s, kw) ==
    LET hits == {i \in 1..Len(s) : KwNumAt(s, i, kw)}
    IN  IF hits = {} THEN NoMatch
        ELSE KwNumGroup(s, CHOOSE i \in hits : \A j \in hits : i <= j, kw)

\* the keywords tried shortest first
ChPatternsShortFirst ==
    << <<"c", "h">>, <<"c", "h", "p">>, <<"c", "h", "a", "p", "t", "e", "r">> >>

\* _CH_PATTERNS: the keywords, in the order they are tried
_CH_PATTERNS ==
    << <<"c", "h", "a", "p", "t", "e", "r">>, <<"c", "h", "p">>, <<"c", "h">> >>

\* (?:vol(?:ume)?|book|bk): the keyword of _VOL_NOISE matching at i, or <<>>
VolKwAt(s, i) ==
    IF      LitAt(s, i, <<"v", "o", "l", "u", "m", "e">>)
            /\ KwNumAt(s, i, <<"v", "o", "l", "u", "m", "e">>)
        THEN <<"v", "o", "l", "u", "m", "e">>
    ELSE IF KwNumAt(s, i, <<"v", "o", "l">>) THEN <<"v", "o", "l">>
    ELSE IF KwNumAt(s, i, <<"b", "o", "o", "k">>) THEN <<"b", "o", "o", "k">>
    ELSE IF KwNumAt(s, i, <<"b", "k">>) THEN <<"b", "k">>
    ELSE <<>>

\* a substitution that removes nothing
VolNoiseKept(s, i) == SubSeq(s, i, Len(s))

\* _VOL_NOISE.sub('', s) from index i on: every leftmost non-overlapping match
\* is removed
RECURSIVE VolNoiseSub(_, _)
VolNoiseSub(s, i) ==
    IF i > Len(s) THEN <<>>
    ELSE LET kw == VolKwAt(s, i)
         IN  IF kw # <<>>
             THEN VolNoiseSub(s, NumEnd(s, TailStart(s, i + Len(kw))))
             ELSE <<s[i]>> \o VolNoiseSub(s, i + 1)

\* re.findall(r'(?<!\d)(\d+(?:\.\d+)?)(?!\d)', s) from index i on
RECURSIVE FindNumbers(_, _)
FindNumbers(s, i) ==
    IF i > Len(s) THEN <<>>
    ELSE IF IsDigit(s[i]) /\ (i = 1 \/ ~IsDigit(s[i - 1]))
         THEN LET e == NumEnd(s, i)
              IN  <<Slice(s, i, e)>> \o FindNumbers(s, e)
         ELSE FindNumbers(s, i + 1)

\* int(digits)
RECURSIVE ParseInt(_)
ParseInt(ds) ==
    IF ds = <<>> THEN 0
    ELSE 10 * ParseInt(SubSeq(ds, 1, Len(ds) - 1)) + DigitVal(ds[Len(ds)])

\* the (int(...), is_decimal) pair returned for a matched number string
NumResult(num_str) ==
    IF "." \in Range(num_str)
    THEN <<ParseInt(Slice(num_str, 1, SkipDigits(num_str, 1))), TRUE>>
    ELSE <<ParseInt(num_str), FALSE>>

\* os.path.basename
Basename(path) ==
    LET slashes == {i \in 1..Len(path) : path[i] = "/"}
    IN  IF slashes = {} THEN path
        ELSE Slice(path, 1 + CHOOSE i \in slashes : \A j \in slashes : j <= i,
                   Len(path) + 1)

\* os.path.splitext(name)[0]: the name up to its last dot, leading dots kept
SplitextRoot(name) ==
    LET lead == CHOOSE k \in 0..Len(name) :
                    /\ \A j \in 1..k : name[j] = "."
                    /\ (k = Len(name) \/ name[k + 1] # ".")
        dots == {i \in (lead + 1)..Len(name) : name[i] = "."}
    IN  IF dots = {} THEN name
        ELSE Slice(name, 1, CHOOSE i \in dots : \A j \in dots : j <= i)

\* the first keyword of _CH_PATTERNS, from index k on, that matches anywhere
RECURSIVE FirstPattern(_, _)
FirstPattern(base, k) ==
    IF k > Len(_CH_PATTERNS) THEN NoMatch
    ELSE IF PatSearch(base, _CH_PATTERNS[k]) # NoMatch
         THEN PatSearch(base, _CH_PATTERNS[k])
         ELSE FirstPattern(base, k + 1)

extract_chapter_number(filename) ==
    LET base    == SplitextRoot(Basename(filename))
        m       == FirstPattern(base, 1)
        cleaned == VolNoiseSub(base, 1)
        numbers == FindNumbers(cleaned, 1)
    IN  IF m # NoMatch THEN NumResult(m)
        ELSE IF numbers # <<>> THEN NumResult(numbers[Len(numbers)])
        ELSE <<None, FALSE>>

----------------------------------------------------------------------------
(* struct.pack, little-endian *)

RECURSIVE Pow(_, _)
Pow(b, n) == IF n = 0 THEN 1 ELSE b * Pow(b, n - 1)

\* the n bytes of the unsigned value v, least significant first
RECURSIVE LE(_, _)
LE(v, n) == IF n = 0 THEN <<>> ELSE <<v % 256>> \o LE(v \div 256, n - 1)

\* struct.pack raises struct.error unless 0 <= v < 2^(8n); every value of the
\* model is below 2^31
FitsU(v, n) == 0 <= v /\ (n >= 4 \/ v < Pow(256, n))

Zeros(n) == [i \in 1..n |-> 0]

\* the format "<ns": the bytes cut to n or padded with zero bytes to n
PackS(bytes, n) ==
    [i \in 1..n |-> IF i <= Len(bytes) THEN bytes[i] ELSE 0]

\* bytes[:n]
Prefix(bytes, n) == SubSeq(bytes, 1, Min(n, Len(bytes)))

\* the unsigned little-endian value of the n bytes of f after the first off
RECURSIVE ReadU(_, _, _)
ReadU(f, off, n) ==
    IF n = 0 THEN 0 ELSE f[off + 1] + 256 * ReadU(f, off + 1, n - 1)

\* the concatenation of a list of byte strings
RECURSIVE Concat(_)
Concat(ss) == IF ss = <<>> THEN <<>> ELSE Head(ss) \o Concat(Tail(ss))

----------------------------------------------------------------------------
(* Images: [w, h, px], px the 8-bit gray values row by row *)

PixelAt(img, x, y) == img.px[y * img.w + x + 1]

ImageSize(img) == <<img.w, img.h>>

\* img.resize(size, Image.LANCZOS): an image of the requested size; the
\* resampling filter is stood for by nearest-neighbour sampling
Resize(img, new_size) ==
    [w  |-> new_size[1],
     h  |-> new_size[2],
     px |-> [k \in 1..(new_size[1] * new_size[2]) |->
               PixelAt(img, (((k - 1) % new_size[1]) * img.w) \div new_size[1],
                            (((k - 1) \div new_size[1]) * img.h) \div new_size[2])]]

\* hashlib.md5(data).digest()[:8]: MD5 is stood for by a position-weighted
\* checksum of the data and its length, never all zero
Md5Digest8(data) ==
    LET Mix(k) == Len(data) * (k + 2)
        RECURSIVE Sum(_, _)
        Sum(i, k) == IF i = 0 THEN 0
                     ELSE (data[i] + 1) * (i + k) + Sum(i - 1, k)
    IN  [k \in 1..8 |-> IF k = 1 THEN 1 + ((Sum(Len(data), k) + Mix(k)) % 255)
                        ELSE (Sum(Len(data), k) + Mix(k)) % 256]

----------------------------------------------------------------------------
(* XTG page encoders *)

\* binarization threshold of _png_to_xtg_bytes
threshold == 200

\* the XTG header is 22 bytes: "<4sHHBBI8s"
XtgHeaderSize == 22

\* b"XTG\x00", and 0x00475458 packed "<I"
XtgMagic == <<88, 84, 71, 0>>

\* the bit of pixel x in its byte: MSB first
BitWeight(x) == Pow(2, 7 - (x % 8))

\* a packing with the least significant bit first
PackBitsLsbFirst(w, h, bits) ==
    LET row_bytes == (w + 7) \div 8
        RECURSIVE ByteOf(_, _, _)
        ByteOf(y, bx, k) ==
            IF k = 8 THEN 0
            ELSE (IF bx * 8 + k < w /\ bits[y * w + bx * 8 + k + 1]
                  THEN Pow(2, k) ELSE 0) + ByteOf(y, bx, k + 1)
    IN  [n \in 1..(row_bytes * h) |->
            ByteOf((n - 1) \div row_bytes, (n - 1) % row_bytes, 0)]

\* the rows of a w x h bitmap packed into (w + 7) // 8 bytes each, MSB first;
\* bits holds the bit of each pixel, row by row
PackBits(w, h, bits) ==
    LET row_bytes == (w + 7) \div 8
        RECURSIVE ByteOf(_, _, _)
        ByteOf(y, bx, k) ==
            IF k = 8 THEN 0
            ELSE (IF bx * 8 + k < w /\ bits[y * w + bx * 8 + k + 1]
                  THEN BitWeight(k) ELSE 0) + ByteOf(y, bx, k + 1)
    IN  [n \in 1..(row_bytes * h) |->
            ByteOf((n - 1) \div row_bytes, (n - 1) % row_bytes, 0)]

\* an encoder that takes the image as it comes
MangaSizedAsIs(img, force_size) == img

\* the image _png_to_xtg_bytes packs: resized when its size is not force_size
MangaSized(img, force_size) ==
    IF ImageSize(img) # force_size THEN Resize(img, force_size) ELSE img

\* data of _png_to_xtg_bytes: bit 1 where the pixel is >= threshold
MangaPayload(img, force_size) ==
    LET im == MangaSized(img, force_size)
    IN  PackBits(im.w, im.h, [k \in 1..Len(im.px) |-> im.px[k] >= threshold])

\* struct.pack("<4sHHBBI8s", ...) raises struct.error
MangaPackFails(force_size) ==
    \/ ~FitsU(force_size[1], 2)
    \/ ~FitsU(force_size[2], 2)
    \/ ~FitsU(((force_size[1] + 7) \div 8) * force_size[2], 4)

_png_to_xtg_bytes(img, force_size) ==
    LET data == MangaPayload(img, force_size)
        w    == MangaSized(img, force_size).w
        h    == MangaSized(img, force_size).h
        md5digest == Md5Digest8(data)
        data_size == Len(data)
    IN  XtgMagic \o LE(w, 2) \o LE(h, 2) \o <<0>> \o <<0>> \o LE(data_size, 4)
        \o PackS(md5digest, 8) \o data

\* C integer division, for a positive divisor
TruncDiv(a, b) == IF a >= 0 THEN a \div b ELSE -((-a) \div b)

CLIP8(v) == IF v < 0 THEN 0 ELSE IF v > 255 THEN 255 ELSE v

\* img.convert("1"): Floyd-Steinberg error diffusion as the imaging library
\* does it, pixel k on (row-major), st the state of its loops; the result is
\* the list of output pixels, 0 or 255
RECURSIVE DitherFrom(_, _, _)
DitherFrom(img, k, st) ==
    IF k = img.w * img.h THEN st.out
    ELSE LET x     == k % img.w
             y     == k \div img.w
             l_in  == IF x = 0 THEN 0 ELSE st.l
             l0_in == IF x = 0 THEN 0 ELSE st.l0
             l1_in == IF x = 0 THEN 0 ELSE st.l1
             lp    == CLIP8(PixelAt(img, x, y)
                            + TruncDiv(l_in + st.errors[x + 2], 16))
             o     == IF lp > 128 THEN 255 ELSE 0
             e     == lp - o
             l0n   == 5 * e + l1_in
             err1  == [st.errors EXCEPT ![x + 1] = 3 * e + l0_in]
             err2  == IF x = img.w - 1
                      THEN [err1 EXCEPT ![img.w + 1] = l0n] ELSE err1
         IN  DitherFrom(img, k + 1,
                        [out |-> Append(st.out, o), errors |-> err2,
                         l |-> 7 * e, l0 |-> l0n, l1 |-> e])

Convert1(img) ==
    [w  |-> img.w,
     h  |-> img.h,
     px |-> DitherFrom(img, 0, [out |-> <<>>, errors |-> Zeros(img.w + 1),
                                l |-> 0, l0 |-> 0, l1 |-> 0])]

\* the image _image_to_xtg_blob packs: resized when its size is not (w, h)
BookSized(img, w, h) ==
    IF ImageSize(img) # <<w, h>> THEN Resize(img, <<w, h>>) ELSE img

\* a bitmap whose rows are not padded to whole bytes
BookPayloadUnpadded(img, w, h) ==
    LET img_1bit == Convert1(BookSized(img, w, h))
    IN  PackBits(img_1bit.w * img_1bit.h, 1,
                 [k \in 1..Len(img_1bit.px) |-> img_1bit.px[k] # 0])

\* bitmap_data of _image_to_xtg_blob: img_1bit.tobytes()
BookPayload(img, w, h) ==
    LET img_1bit == Convert1(BookSized(img, w, h))
    IN  PackBits(img_1bit.w, img_1bit.h,
                 [k \in 1..Len(img_1bit.px) |-> img_1bit.px[k] # 0])

\* struct.pack("<IHHBBIQ", ...) raises struct.error
BookPackFails(w, h) ==
    \/ ~FitsU(w, 2)
    \/ ~FitsU(h, 2)
    \/ ~FitsU(((w + 7) \div 8) * h, 4)

_image_to_xtg_blob(img, w, h) ==
    LET bitmap_data == BookPayload(img, w, h)
        data_size   == ((w + 7) \div 8) * h
    IN  XtgMagic \o LE(w, 2) \o LE(h, 2) \o <<0>> \o <<0>> \o LE(data_size, 4)
        \o LE(0, 8) \o bitmap_data

----------------------------------------------------------------------------
(* Book metadata and chapter records *)

\* b"X4Utils"
GeneratorTag == <<88, 52, 85, 116, 105, 108, 115>>

\* a metadata block that stores the clock in eight bytes
PackMetadataWideClock(title, author, lang, chapter_count, now) ==
    PackS(Prefix(title, 127), 128) \o PackS(Prefix(author, 63), 64)
    \o PackS(GeneratorTag, 32) \o PackS(Prefix(lang, 15), 16)
    \o LE(now, 4) \o LE(now % 7, 2) \o LE(chapter_count, 2) \o Zeros(8)

\* now is int(time.time())
_pack_metadata(title, author, lang, chapter_count, now) ==
    PackS(Prefix(title, 127), 128) \o PackS(Prefix(author, 63), 64)
    \o PackS(GeneratorTag, 32) \o PackS(Prefix(lang, 15), 16)
    \o LE(now, 4) \o LE(0, 2) \o LE(chapter_count, 2) \o Zeros(8)

_pack_chapter(name, start_pg, end_pg) ==
    PackS(Prefix(name, 79), 80) \o LE(start_pg, 2) \o LE(end_pg, 2)
    \o Zeros(12)

\* one of the pack_into calls of _pack_chapter raises struct.error
PackChapterFails(chapter) == ~FitsU(chapter[2], 2) \/ ~FitsU(chapter[3], 2)

----------------------------------------------------------------------------
(* classify_cbz_files *)

\* at most this many paths in one call
MaxPaths == 3

\* the file names the calls are made with
FileNames ==
    { <<"c", "h", "1", ".", "c", "b", "z">>,                 \* (1, False)
      <<"c", "h", "1", ".", "5", ".", "c", "b", "z">>,       \* (1, True)
      <<"v", "o", "l", "2", " ", "1", ".", "c", "b", "z">>,  \* (1, False)
      <<"C", "h", " ", "2", ".", "c", "b", "z">>,            \* (2, False)
      <<"d", "/", "2", ".", "5", ".", "c", "b", "z">>,       \* (2, True)
      <<"a", ".", "c", "b", "z">>,                           \* (None, False)
      <<"v", "1", "/", "3", ".", "c", "b", "z">> }           \* (3, False)

\* the lists of n paths: an upload may name the same file twice
RECURSIVE PathLists(_)
PathLists(n) ==
    IF n = 0 THEN {<<>>}
    ELSE {Append(l, f) : l \in PathLists(n - 1), f \in FileNames}

\* a classification that overwrites a claimed slot
ClassifyPathLastWins(rec, unrec, path) ==
    LET r == extract_chapter_number(path)
    IN  IF r[1] = None
        THEN [recognized |-> rec, unrecognized |-> Append(unrec, path)]
        ELSE [recognized |-> [c \in DOMAIN rec \cup {r[1]} |->
                                IF c = r[1] THEN path ELSE rec[c]],
              unrecognized |-> unrec]

\* a classification that puts every later path of a claimed chapter nowhere
ClassifyPathDropsLater(rec, unrec, path) ==
    LET r == extract_chapter_number(path)
    IN  IF r[1] = None
        THEN [recognized |-> rec, unrecognized |-> Append(unrec, path)]
        ELSE IF r[1] \in DOMAIN rec
        THEN [recognized |-> rec, unrecognized |-> unrec]
        ELSE [recognized |-> [c \in DOMAIN rec \cup {r[1]} |->
                                IF c = r[1] THEN path ELSE rec[c]],
              unrecognized |-> unrec]

\* the body of the for loop of classify_cbz_files, for one path
ClassifyPath(rec, unrec, path) ==
    LET r          == extract_chapter_number(path)
        ch_num     == r[1]
        is_decimal == r[2]
    IN  IF ch_num = None
        THEN [recognized |-> rec, unrecognized |-> Append(unrec, path)]
        ELSE IF is_decimal /\ ch_num \in DOMAIN rec
        THEN [recognized |-> rec, unrecognized |-> unrec]
        ELSE IF ch_num \in DOMAIN rec
        THEN [recognized |-> rec, unrecognized |-> Append(unrec, path)]
        ELSE [recognized |-> [c \in DOMAIN rec \cup {ch_num} |->
                                IF c = ch_num THEN path ELSE rec[c]],
              unrecognized |-> unrec]

\* no call of classify_cbz_files is modelled
ClassifyIdle ==
    /\ cbz_paths = <<>>
    /\ pos = 1
    /\ recognized = <<>>
    /\ unrecognized = <<>>

ClassifyCall ==
    /\ cbz_paths \in UNION {PathLists(n) : n \in 0..MaxPaths}
    /\ pos = 1
    /\ recognized = <<>>
    /\ unrecognized = <<>>

\* one iteration of `for path in cbz_paths`
ClassifyStep ==
    /\ pos <= Len(cbz_paths)
    /\ LET out == ClassifyPath(recognized, unrecognized, cbz_paths[pos])
       IN  /\ recognized' = out.recognized
           /\ unrecognized' = out.unrecognized
    /\ pos' = pos + 1
    /\ UNCHANGED <<cbz_paths, bldVars, zoomVars, moreVars>>

----------------------------------------------------------------------------
(* XTC container builders *)

\* at most this many pages in one container
MaxPages == 2

\* at most this many chapters in one book
MaxChapters == 2

\* the header of build_xtc is 48 bytes: "<4sHHBBBBIQQQQ"
header_size == 48

index_entry_size == 16

\* build_book_xtc: the header is 56 bytes, "<IHHBBBBIQQQQQ"
metadata_off == 56

\* b"XTC\x00", and 0x00435458 packed "<I"
XtcMagic == <<88, 84, 67, 0>>

\* the output path does not exist
NoFile == <<-1>>

\* the pages the builders are called with
SampleImages ==
    { [w |-> 3, h |-> 2, px |-> <<255, 0, 255, 0, 255, 0>>],
      [w |-> 3, h |-> 2, px |-> <<199, 200, 128, 129, 60, 255>>],
      [w |-> 9, h |-> 1, px |-> <<255, 255, 0, 0, 255, 0, 200, 255, 0>>] }

\* the declared container sizes; the last has a width that is no 16-bit value
DeclaredSizes == {<<3, 2>>, <<9, 1>>, <<65536, 1>>}

\* values of int(time.time())
Clock == {1700000000, 1700000003}

RECURSIVE PageLists(_)
PageLists(n) ==
    IF n = 0 THEN {<<>>}
    ELSE {Append(l, img) : l \in PageLists(n - 1), img \in SampleImages}

\* the number of pages of each chapter of a book: lists of n counts
RECURSIVE CountLists(_)
CountLists(n) ==
    IF n = 0 THEN {<<>>}
    ELSE {Append(l, c) : l \in CountLists(n - 1), c \in 0..MaxPages}

RECURSIVE SumSeq(_)
SumSeq(s) == IF s = <<>> THEN 0 ELSE Head(s) + SumSeq(Tail(s))

\* chapter_records of render_book for chapters of these page counts: the
\* title, len(all_pages) before the chapter, len(all_pages) - 1 after it
ChapterRecords(counts) ==
    [c \in 1..Len(counts) |->
        << <<67, 48 + c>>,
           SumSeq(SubSeq(counts, 1, c - 1)),
           SumSeq(SubSeq(counts, 1, c)) - 1 >>]

\* no call of a builder is modelled
BuildIdle ==
    /\ kind = "manga"
    /\ pages = <<>>
    /\ size = <<3, 2>>
    /\ metadata = <<>>
    /\ chapters = <<>>
    /\ bpc = "idle"
    /\ metadata_block = <<>>
    /\ chapter_block = <<>>
    /\ xtg_blobs = <<>>
    /\ index_table = <<>>
    /\ parts = <<>>
    /\ wi = 1
    /\ fs = NoFile
    /\ wrote = <<>>
    /\ run = 1
    /\ first_out = NoFile

\* the state at the entry of build_xtc or build_book_xtc
BuildCall ==
    /\ kind \in {"manga", "book"}
    /\ pages \in UNION {PageLists(n) : n \in 0..MaxPages}
    /\ size \in DeclaredSizes
    /\ IF kind = "book"
       THEN /\ metadata = [title |-> <<77, 111>>, author |-> <<65>>,
                           lang |-> <<101, 110>>]
            /\ \E counts \in UNION {CountLists(n) : n \in 0..MaxChapters} :
                  /\ SumSeq(counts) = Len(pages)
                  /\ chapters = ChapterRecords(counts)
       ELSE metadata = <<>> /\ chapters = <<>>
    /\ bpc = "begin"
    /\ metadata_block = <<>>
    /\ chapter_block = <<>>
    /\ xtg_blobs = <<>>
    /\ index_table = <<>>
    /\ parts = <<>>
    /\ wi = 1
    /\ fs = NoFile
    /\ wrote = <<>>
    /\ run = 1
    /\ first_out = NoFile

Part(region, bytes) == [region |-> region, bytes |-> bytes]

\* what is outside the builders
outsideBuild == <<clsVars, zoomVars, moreVars>>

\* what a step of a builder leaves alone: its arguments, and the rest
inputVars == <<kind, pages, size, metadata, chapters, run, first_out,
               outsideBuild>>

(* build_xtc *)

\* one element of the list comprehension: _png_to_xtg_bytes of the next image
MangaEncodePage ==
    /\ kind = "manga" /\ bpc = "begin"
    /\ Len(xtg_blobs) < Len(pages)
    /\ ~MangaPackFails(size)
    /\ xtg_blobs' = Append(xtg_blobs,
                           _png_to_xtg_bytes(pages[Len(xtg_blobs) + 1], size))
    /\ UNCHANGED <<inputVars, bpc, metadata_block, chapter_block, index_table,
                   parts, wi, fs, wrote>>

\* struct.pack of the XTG header raises: the call ends in struct.error
MangaEncodeFails ==
    /\ kind = "manga" /\ bpc = "begin"
    /\ Len(xtg_blobs) < Len(pages)
    /\ MangaPackFails(size)
    /\ bpc' = "error"
    /\ UNCHANGED <<inputVars, metadata_block, chapter_block, xtg_blobs,
                   index_table, parts, wi, fs, wrote>>

\* struct.pack("<Q I H H", rel_offset, len(blob), w, h)
MangaIndexEntry(rel_offset, length, w, h) ==
    LE(rel_offset, 8) \o LE(length, 4) \o LE(w, 2) \o LE(h, 2)

\* an index table whose offset is not advanced: every entry points at the
\* first blob
RECURSIVE MangaIndexFixedOffset(_, _, _)
MangaIndexFixedOffset(blobs, k, rel_offset) ==
    IF k > Len(blobs) THEN <<>>
    ELSE MangaIndexEntry(rel_offset, Len(blobs[k]),
                         ReadU(blobs[k], 4, 2), ReadU(blobs[k], 6, 2))
         \o MangaIndexFixedOffset(blobs, k + 1, rel_offset)

\* the index table of build_xtc for the blobs from the k-th on, the k-th at
\* rel_offset; w and h are unpacked from the blob
RECURSIVE MangaIndex(_, _, _)
MangaIndex(blobs, k, rel_offset) ==
    IF k > Len(blobs) THEN <<>>
    ELSE MangaIndexEntry(rel_offset, Len(blobs[k]),
                         ReadU(blobs[k], 4, 2), ReadU(blobs[k], 6, 2))
         \o MangaIndex(blobs, k + 1, rel_offset + Len(blobs[k]))

\* the header of build_xtc
MangaHeader(page_count, index_offset, data_offset) ==
    XtcMagic \o LE(1, 2) \o LE(page_count, 2) \o <<0, 0, 0, 0>> \o LE(0, 4)
    \o LE(0, 8) \o LE(index_offset, 8) \o LE(data_offset, 8) \o LE(0, 8)

\* index table and header, up to the open of the file
MangaLayout ==
    /\ kind = "manga" /\ bpc = "begin"
    /\ Len(xtg_blobs) = Len(pages)
    /\ LET page_count   == Len(xtg_blobs)
           index_offset == header_size
           data_offset  == index_offset + page_count * index_entry_size
       IN  IF ~FitsU(page_count, 2)
           THEN /\ bpc' = "error"
                /\ UNCHANGED <<index_table, parts>>
           ELSE /\ index_table' = MangaIndex(xtg_blobs, 1, data_offset)
                /\ parts' =
                      << Part("header",
                              MangaHeader(page_count, index_offset, data_offset)),
                         Part("index", index_table') >>
                      \o [k \in 1..page_count |-> Part("blob", xtg_blobs[k])]
                /\ bpc' = "open"
    /\ UNCHANGED <<inputVars, metadata_block, chapter_block, xtg_blobs, wi, fs,
                   wrote>>

(* build_book_xtc *)

\* an index offset that counts 80 bytes for a chapter record
BookIndexOffShortChapters == metadata_off + 256 + Len(chapters) * 80

BookIndexOff == metadata_off + 256 + Len(chapters) * 96

BookDataOff == BookIndexOff + Len(pages) * 16

\* struct.pack("<QIHH", data_off + len(blob_data), len(page_blob), w, h)
BookIndexEntry(offset, length, w, h) ==
    LE(offset, 8) \o LE(length, 4) \o LE(w, 2) \o LE(h, 2)

\* _pack_metadata, which reads the clock
BookPackMetadata ==
    /\ kind = "book" /\ bpc = "begin"
    /\ IF ~FitsU(Len(chapters), 2)
       THEN bpc' = "error" /\ UNCHANGED metadata_block
       ELSE /\ \E now \in Clock :
                  metadata_block' = _pack_metadata(metadata.title, metadata.author,
                                                   metadata.lang, Len(chapters), now)
            /\ bpc' = "chapters"
    /\ UNCHANGED <<inputVars, chapter_block, xtg_blobs, index_table, parts, wi,
                   fs, wrote>>

\* the loop over chapters, every _pack_chapter succeeding
BookPackChapters ==
    /\ kind = "book" /\ bpc = "chapters"
    /\ \A c \in 1..Len(chapters) : ~PackChapterFails(chapters[c])
    /\ chapter_block' =
          Concat([c \in 1..Len(chapters) |->
                    _pack_chapter(chapters[c][1], chapters[c][2], chapters[c][3])])
    /\ bpc' = "pages"
    /\ UNCHANGED <<inputVars, metadata_block, xtg_blobs, index_table, parts, wi,
                   fs, wrote>>

\* a start or end page that is no 16-bit value: struct.error
BookPackChaptersFails ==
    /\ kind = "book" /\ bpc = "chapters"
    /\ \E c \in 1..Len(chapters) : PackChapterFails(chapters[c])
    /\ bpc' = "error"
    /\ UNCHANGED <<inputVars, metadata_block, chapter_block, xtg_blobs,
                   index_table, parts, wi, fs, wrote>>

\* one iteration of `for img in pages`
BookEncodePage ==
    /\ kind = "book" /\ bpc = "pages"
    /\ Len(xtg_blobs) < Len(pages)
    /\ ~BookPackFails(size[1], size[2])
    /\ LET page_blob == _image_to_xtg_blob(pages[Len(xtg_blobs) + 1],
                                           size[1], size[2])
           blob_data == Concat(xtg_blobs)
       IN  /\ index_table' = index_table
                \o BookIndexEntry(BookDataOff + Len(blob_data), Len(page_blob),
                                  size[1], size[2])
           /\ xtg_blobs' = Append(xtg_blobs, page_blob)
    /\ UNCHANGED <<inputVars, bpc, metadata_block, chapter_block, parts, wi, fs,
                   wrote>>

BookEncodeFails ==
    /\ kind = "book" /\ bpc = "pages"
    /\ Len(xtg_blobs) < Len(pages)
    /\ BookPackFails(size[1], size[2])
    /\ bpc' = "error"
    /\ UNCHANGED <<inputVars, metadata_block, chapter_block, xtg_blobs,
                   index_table, parts, wi, fs, wrote>>

\* the header of build_book_xtc
BookHeader(total_pages, index_off, data_off, chapter_off) ==
    XtcMagic \o LE(256, 2) \o LE(total_pages, 2) \o <<0, 1, 0, 1>> \o LE(1, 4)
    \o LE(metadata_off, 8) \o LE(index_off, 8) \o LE(data_off, 8) \o LE(0, 8)
    \o LE(chapter_off, 8)

\* the header, up to the open of the file
BookPackHeader ==
    /\ kind = "book" /\ bpc = "pages"
    /\ Len(xtg_blobs) = Len(pages)
    /\ IF ~FitsU(Len(pages), 2)
       THEN bpc' = "error" /\ UNCHANGED parts
       ELSE /\ parts' =
                  << Part("header", BookHeader(Len(pages), BookIndexOff,
                                               BookDataOff, metadata_off + 256)),
                     Part("metadata", metadata_block),
                     Part("chapters", chapter_block),
                     Part("index", index_table),
                     Part("data", Concat(xtg_blobs)) >>
            /\ bpc' = "open"
    /\ UNCHANGED <<inputVars, metadata_block, chapter_block, xtg_blobs,
                   index_table, wi, fs, wrote>>

(* the with block of both builders *)

\* open(out_path, "wb"): the file is created, or cut to length zero
OpenFile ==
    /\ bpc = "open"
    /\ fs' = <<>>
    /\ wi' = 1
    /\ wrote' = <<>>
    /\ bpc' = "write"
    /\ UNCHANGED <<inputVars, metadata_block, chapter_block, xtg_blobs,
                   index_table, parts>>

\* the next f.write
WritePart ==
    /\ bpc = "write"
    /\ wi <= Len(parts)
    /\ fs' = fs \o parts[wi].bytes
    /\ wrote' = Append(wrote, [region |-> parts[wi].region, at |-> Len(fs),
                               len |-> Len(parts[wi].bytes)])
    /\ wi' = wi + 1
    /\ UNCHANGED <<inputVars, bpc, metadata_block, chapter_block, xtg_blobs,
                   index_table, parts>>

\* the end of the with block: the call returns
CloseFile ==
    /\ bpc = "write"
    /\ wi > Len(parts)
    /\ bpc' = "done"
    /\ UNCHANGED <<inputVars, metadata_block, chapter_block, xtg_blobs,
                   index_table, parts, wi, fs, wrote>>

\* the call is cut short where it stands: f.write raises OSError, the process
\* is interrupted. Nothing in the builders removes the file.
Interrupt ==
    /\ bpc \in {"begin", "chapters", "pages", "open", "write"}
    /\ bpc' = "interrupted"
    /\ UNCHANGED <<inputVars, metadata_block, chapter_block, xtg_blobs,
                   index_table, parts, wi, fs, wrote>>

\* the same inputs are built a second time, to the same path
Rebuild ==
    /\ bpc = "done"
    /\ run = 1
    /\ run' = 2
    /\ first_out' = fs
    /\ bpc' = "begin"
    /\ metadata_block' = <<>>
    /\ chapter_block' = <<>>
    /\ xtg_blobs' = <<>>
    /\ index_table' = <<>>
    /\ parts' = <<>>
    /\ wi' = 1
    /\ UNCHANGED <<kind, pages, size, metadata, chapters, fs, wrote,
                   outsideBuild>>

BuildNext ==
    \/ MangaEncodePage
    \/ MangaEncodeFails
    \/ MangaLayout
    \/ BookPackMetadata
    \/ BookPackChapters
    \/ BookPackChaptersFails
    \/ BookEncodePage
    \/ BookEncodeFails
    \/ BookPackHeader
    \/ OpenFile
    \/ WritePart
    \/ CloseFile
    \/ Interrupt
    \/ Rebuild
----------------------------------------------------------------------------
(* Fractions <<n, d>>, d > 0, for the float arithmetic of the zoom transform;
   rounding of floats is not modelled *)

RECURSIVE GCD(_, _)
GCD(a, b) == IF b = 0 THEN a ELSE GCD(b, a % b)

Abs(a) == IF a < 0 THEN -a ELSE a

\* n / d in lowest terms, for d # 0
Frac(n, d) ==
    LET g == GCD(Abs(n), Abs(d))
    IN  IF d < 0 THEN <<(-n) \div g, (-d) \div g>> ELSE <<n \div g, d \div g>>

FInt(k)    == <<k, 1>>
FSub(a, b) == Frac(a[1] * b[2] - b[1] * a[2], a[2] * b[2])
FMul(a, b) == Frac(a[1] * b[1], a[2] * b[2])
\* a / b, for b # 0
FDiv(a, b) == Frac(a[1] * b[2], a[2] * b[1])
FLess(a, b) == a[1] * b[2] < b[1] * a[2]
FLeq(a, b)  == a[1] * b[2] <= b[1] * a[2]
FIsZero(a)  == a[1] = 0

\* floor(a): the largest integer not above the fraction
FFloor(a) == a[1] \div a[2]

\* int(a): the fraction cut towards zero
FTrunc(a) == TruncDiv(a[1], a[2])

----------------------------------------------------------------------------
(* _process_zoom_page *)

\* the largest target width and height of a call, and the largest source size
MaxTarget == 8
MaxSrcWidth == 2
MaxSrcHeight == 4

desired_segments == 3

min_overlap_pct == 5

\* the cap of the while loop on num_segments
MaxSegments == 26

\* no call of _process_zoom_page is modelled
ZoomIdle ==
    /\ zsettings = [target_width |-> 1, target_height |-> 1]
    /\ zimg = [width |-> 1, height |-> 1]
    /\ zpc = "idle"
    /\ num_segments = 0
    /\ shift = <<0, 1>>
    /\ segments = <<>>

\* the state at the entry of _process_zoom_page: _parse_settings checks no
\* target size, a decoded image has at least one row and one column
ZoomCall ==
    /\ zsettings \in [target_width : (-1)..MaxTarget, target_height : (-1)..MaxTarget]
    /\ zimg \in [width : 1..MaxSrcWidth, height : 1..MaxSrcHeight]
    /\ zpc = "begin"
    /\ num_segments = 0
    /\ shift = <<0, 1>>
    /\ segments = <<>>

tw == zsettings.target_width
th == zsettings.target_height

\* established_scale = th * 1.0 / width
established_scale == Frac(th, zimg.width)

\* overlapping_height = tw / established_scale, for established_scale # 0
overlapping_height == FDiv(FInt(tw), established_scale)

\* a shift that spreads the band tops over the whole height, so that the
\* bands do not reach each other
ShiftSpread(n) ==
    IF n > 1 THEN FDiv(FInt(zimg.height), FInt(n - 1)) ELSE <<0, 1>>

\* shift for n segments, as both assignments of shift compute it
ShiftFor(n) ==
    IF n > 1
    THEN FSub(overlapping_height,
              FDiv(FSub(FMul(overlapping_height, FInt(n)), FInt(zimg.height)),
                   FInt(n - 1)))
    ELSE <<0, 1>>

\* a while condition that only asks the bands to touch
LoopConditionNoOverlap(n, sh) ==
    n < MaxSegments /\ FLess(<<0, 1>>, sh)
    /\ FLess(FInt(1), FDiv(sh, overlapping_height))

\* the condition of the while loop, where overlapping_height # 0
LoopCondition(n, sh) ==
    n < MaxSegments /\ FLess(<<0, 1>>, sh)
    /\ FLess(FSub(FInt(1), Frac(min_overlap_pct, 100)),
             FDiv(sh, overlapping_height))

\* the while condition divides by overlapping_height = 0.0
LoopDividesByZero(n, sh) ==
    n < MaxSegments /\ FLess(<<0, 1>>, sh) /\ FIsZero(overlapping_height)

outsideZoom == <<clsVars, bldVars, moreVars>>

\* up to the while loop
ZoomBegin ==
    /\ zpc = "begin"
    /\ ~FIsZero(established_scale)
    /\ num_segments' = desired_segments
    /\ shift' = ShiftFor(desired_segments)
    /\ zpc' = "loop"
    /\ UNCHANGED <<zsettings, zimg, segments, outsideZoom>>

\* tw / established_scale with established_scale = 0.0: ZeroDivisionError
ZoomScaleIsZero ==
    /\ zpc = "begin"
    /\ FIsZero(established_scale)
    /\ zpc' = "error"
    /\ UNCHANGED <<zsettings, zimg, num_segments, shift, segments, outsideZoom>>

\* one iteration of the while loop
ZoomGrow ==
    /\ zpc = "loop"
    /\ ~LoopDividesByZero(num_segments, shift)
    /\ LoopCondition(num_segments, shift)
    /\ num_segments' = num_segments + 1
    /\ shift' = ShiftFor(num_segments + 1)
    /\ UNCHANGED <<zsettings, zimg, zpc, segments, outsideZoom>>

\* the while condition is false
ZoomLoopEnds ==
    /\ zpc = "loop"
    /\ ~LoopDividesByZero(num_segments, shift)
    /\ ~LoopCondition(num_segments, shift)
    /\ zpc' = "bands"
    /\ UNCHANGED <<zsettings, zimg, num_segments, shift, segments, outsideZoom>>

\* shift / overlapping_height with overlapping_height = 0.0
ZoomHeightIsZero ==
    /\ zpc = "loop"
    /\ LoopDividesByZero(num_segments, shift)
    /\ zpc' = "error"
    /\ UNCHANGED <<zsettings, zimg, num_segments, shift, segments, outsideZoom>>

\* one iteration of `for v in range(num_segments)`: the crop box
ZoomBand ==
    /\ zpc = "bands"
    /\ Len(segments) < num_segments
    /\ LET v      == Len(segments)
           top    == FTrunc(FMul(shift, FInt(v)))
           bottom == FTrunc(FSub(FInt(zimg.height),
                                 FMul(shift, FInt(num_segments - v - 1))))
       IN  segments' = Append(segments, <<top, bottom>>)
    /\ UNCHANGED <<zsettings, zimg, zpc, num_segments, shift, outsideZoom>>

\* return segments
ZoomReturn ==
    /\ zpc = "bands"
    /\ Len(segments) = num_segments
    /\ zpc' = "done"
    /\ UNCHANGED <<zsettings, zimg, num_segments, shift, segments, outsideZoom>>

ZoomNext ==
    \/ ZoomBegin
    \/ ZoomScaleIsZero
    \/ ZoomGrow
    \/ ZoomLoopEnds
    \/ ZoomHeightIsZero
    \/ ZoomBand
    \/ ZoomReturn

----------------------------------------------------------------------------
(* extract_chapter_number, called on the name of a .cbz file *)

\* at most this many tokens make up a file name
MaxTokens == 4

\* the pieces file names are made of
NameTokens ==
    { <<"c", "h">>, <<"C", "h", "p">>, <<"c", "h", "a", "p", "t", "e", "r">>,
      <<"v", "o", "l">>, <<"x">>, <<" ">>, <<"_">>, <<".">>, <<"1">>,
      <<"0", "7">>, <<"2", ".", "3">> }

\* the strings of at most n tokens
RECURSIVE TokenStrings(_)
TokenStrings(n) ==
    IF n = 0 THEN {<<>>}
    ELSE LET shorter == TokenStrings(n - 1)
         IN  shorter \cup {s \o tok : s \in shorter, tok \in NameTokens}

\* the callers pass paths that end in .cbz
CbzNames == {s \o <<".", "c", "b", "z">> : s \in TokenStrings(MaxTokens)}

\* no call of extract_chapter_number is modelled
ExtractIdle ==
    /\ ecn_in = <<>>
    /\ ecn_out = <<None, FALSE>>
    /\ epc = "idle"

ExtractCall ==
    /\ ecn_in \in CbzNames
    /\ ecn_out = <<None, FALSE>>
    /\ epc = "call"

outsideExtract == <<clsVars, bldVars, zoomVars, evtVars, stripVars, lateVars, lastVars>>

\* the call returns
ExtractReturn ==
    /\ epc = "call"
    /\ ecn_out' = extract_chapter_number(ecn_in)
    /\ epc' = "done"
    /\ UNCHANGED <<ecn_in, outsideExtract>>

----------------------------------------------------------------------------
(* convert_chapters: a generator of status events *)

\* a chapter map has at most this many chapters
MaxMapSize == 3

ChapterNumbers == {0, 1, 5, 12}

ChapterPaths == { <<"d", "/", "a", ".", "c", "b", "z">>, <<"b", ".", "c", "b", "z">> }

\* the chapter maps of at most n chapters
ChapterMaps(n) ==
    UNION {[keys -> ChapterPaths] :
              keys \in {ks \in SUBSET ChapterNumbers : Cardinality(ks) <= n}}

\* the keys in descending order
RECURSIVE KeysDescending(_)
KeysDescending(keys) ==
    IF keys = {} THEN <<>>
    ELSE LET hi == CHOOSE c \in keys : \A d \in keys : d <= c
         IN  <<hi>> \o KeysDescending(keys \ {hi})

\* the keys of sorted(chapter_map.items()): the keys are distinct, so the
\* pairs are in ascending order of chapter number
RECURSIVE SortedKeys(_)
SortedKeys(keys) ==
    IF keys = {} THEN <<>>
    ELSE LET lo == CHOOSE c \in keys : \A d \in keys : c <= d
         IN  <<lo>> \o SortedKeys(keys \ {lo})

\* total = len(chapter_map)
total == Cardinality(DOMAIN chapter_map)

\* no call of convert_chapters is modelled
ConvertIdle ==
    /\ chapter_map = <<>>
    /\ events = <<>>
    /\ converted = <<>>
    /\ cpc = "idle"

ConvertCall ==
    /\ chapter_map \in ChapterMaps(MaxMapSize)
    /\ events = <<>>
    /\ converted = <<>>
    /\ cpc = "loop"

outsideConvert == <<clsVars, bldVars, zoomVars, exVars, stripVars, lateVars, lastVars>>

\* the yield of the for loop: the next pair of the sorted items
ConvertYield ==
    /\ cpc = "loop"
    /\ Len(events) < total
    /\ LET idx    == Len(events) + 1
           ch_num == SortedKeys(DOMAIN chapter_map)[idx]
       IN  events' = Append(events,
                        [current |-> idx, total |-> total, ch_num |-> ch_num,
                         filename |-> Basename(chapter_map[ch_num])])
    /\ cpc' = "yielded"
    /\ UNCHANGED <<chapter_map, converted, outsideConvert>>

\* the generator is resumed: convert_chapter(cbz_path, ch_num, ...) returns
ConvertChapterReturns ==
    /\ cpc = "yielded"
    /\ converted' = Append(converted, events[Len(events)].ch_num)
    /\ cpc' = "loop"
    /\ UNCHANGED <<chapter_map, events, outsideConvert>>

\* convert_chapter raises: the exception leaves the generator
ConvertChapterRaises ==
    /\ cpc = "yielded"
    /\ cpc' = "error"
    /\ UNCHANGED <<chapter_map, events, converted, outsideConvert>>

\* the yield after the loop
ConvertYieldFinal ==
    /\ cpc = "loop"
    /\ Len(events) = total
    /\ events' = Append(events,
                     [current |-> total, total |-> total, ch_num |-> None,
                      filename |-> <<>>])
    /\ cpc' = "final"
    /\ UNCHANGED <<chapter_map, converted, outsideConvert>>

\* return str(root): the generator is exhausted
ConvertReturn ==
    /\ cpc = "final"
    /\ cpc' = "done"
    /\ UNCHANGED <<chapter_map, events, converted, outsideConvert>>

ConvertNext ==
    \/ ConvertYield
    \/ ConvertChapterReturns
    \/ ConvertChapterRaises
    \/ ConvertYieldFinal
    \/ ConvertReturn

----------------------------------------------------------------------------
(* _process_long_strip *)

\* at most this many images in a chapter, and the largest target size
MaxStripImages == 2
MaxStripTarget == 2

\* the images of a chapter: the rows of an image differ from each other
\* and from the rows of the others
StripSamples ==
    { [w |-> 1, h |-> 2, px |-> <<10, 20>>],
      [w |-> 2, h |-> 1, px |-> <<30, 40>>] }

RECURSIVE StripLists(_)
StripLists(n) ==
    IF n = 0 THEN {<<>>}
    ELSE LET shorter == StripLists(n - 1)
         IN  shorter \cup {Append(l, img) : l \in shorter, img \in StripSamples}

\* the values _parse_settings lets through: any target size, an overlap
\* of 0 to 90
StripSettings ==
    [target_width : (-1)..MaxStripTarget,
     target_height : (-1)..(MaxStripTarget + 1),
     overlap : {0, 33, 50, 90}]

\* no call of _process_long_strip is modelled
StripIdle ==
    /\ strip_settings = [target_width |-> 1, target_height |-> 1, overlap |-> 0]
    /\ strip_images = <<>>
    /\ img_metadata = <<>>
    /\ current_y = 0
    /\ strip_pages = <<>>
    /\ spc = "idle"

StripCall ==
    /\ strip_settings \in StripSettings
    /\ strip_images \in StripLists(MaxStripImages)
    /\ img_metadata = <<>>
    /\ current_y = 0
    /\ strip_pages = <<>>
    /\ spc = "scale"

target_w == strip_settings.target_width
target_h == strip_settings.target_height

\* overlap_px = int(target_h * overlap_pct) before the fallback
overlap_px == FTrunc(FMul(FInt(target_h), Frac(strip_settings.overlap, 100)))

\* a step without the fallback
StepNoFallback == target_h - overlap_px

\* step = target_h - overlap_px, or 10 when that is not positive
step == IF target_h - overlap_px <= 0 THEN 10 ELSE target_h - overlap_px

\* new_h = int(h * scale) with scale = target_w / w
NewHeight(img) == FTrunc(FMul(FInt(img.h), Frac(target_w, img.w)))

\* total_virtual_height after the images scaled so far
total_virtual_height ==
    IF img_metadata = <<>> THEN 0 ELSE img_metadata[Len(img_metadata)].end_y

\* Image.new("L", (w, h), 255)
WhiteCanvas(w, h) == [w |-> w, h |-> h, px |-> [k \in 1..(w * h) |-> 255]]

\* img.crop((0, top, img.w, img.h))
CropTop(img, top) ==
    [w |-> img.w, h |-> img.h - top,
     px |-> [k \in 1..(img.w * (img.h - top)) |-> img.px[k + top * img.w]]]

\* a paste one row further down
PasteShifted(canvas, src, y) ==
    [canvas EXCEPT !.px =
        [k \in 1..(canvas.w * canvas.h) |->
            LET cx == (k - 1) % canvas.w
                cy == (k - 1) \div canvas.w
            IN  IF cx < src.w /\ cy >= y + 1 /\ cy < y + 1 + src.h
                THEN PixelAt(src, cx, cy - y - 1)
                ELSE canvas.px[k]]]

\* canvas.paste(src, (0, y)) for y >= 0: src is cut at the edges of canvas
Paste(canvas, src, y) ==
    [canvas EXCEPT !.px =
        [k \in 1..(canvas.w * canvas.h) |->
            LET cx == (k - 1) % canvas.w
                cy == (k - 1) \div canvas.w
            IN  IF cx < src.w /\ cy >= y /\ cy < y + src.h
                THEN PixelAt(src, cx, cy - y)
                ELSE canvas.px[k]]]

\* the body of `for meta in img_metadata` for the metas from the k-th on
RECURSIVE Composite(_, _, _)
Composite(canvas, k, win_start) ==
    IF k > Len(img_metadata) THEN canvas
    ELSE LET meta    == img_metadata[k]
             win_end == win_start + target_h
             paste_y == meta.start_y - win_start
         IN  IF meta.end_y > win_start /\ meta.start_y < win_end
             THEN Composite(
                      IF paste_y < 0
                      THEN Paste(canvas, CropTop(meta.img, -paste_y), 0)
                      ELSE Paste(canvas, meta.img, paste_y),
                      k + 1, win_start)
             ELSE Composite(canvas, k + 1, win_start)

outsideStrip == <<clsVars, bldVars, zoomVars, exVars, evtVars, lateVars, lastVars>>

\* one iteration of `for img in images`: the image is scaled and recorded
StripScale ==
    /\ spc = "scale"
    /\ Len(img_metadata) < Len(strip_images)
    /\ LET img   == strip_images[Len(img_metadata) + 1]
           new_h == NewHeight(img)
       IN  /\ target_w >= 1 /\ new_h >= 1
           /\ img_metadata' = Append(img_metadata,
                  [img |-> Resize(img, <<target_w, new_h>>),
                   start_y |-> total_virtual_height,
                   end_y |-> total_virtual_height + new_h,
                   h |-> new_h])
    /\ UNCHANGED <<strip_settings, strip_images, current_y, strip_pages, spc,
                   outsideStrip>>

\* img.resize raises ValueError for a size that is not positive
StripScaleRaises ==
    /\ spc = "scale"
    /\ Len(img_metadata) < Len(strip_images)
    /\ target_w < 1 \/ NewHeight(strip_images[Len(img_metadata) + 1]) < 1
    /\ spc' = "error"
    /\ UNCHANGED <<strip_settings, strip_images, img_metadata, current_y,
                   strip_pages, outsideStrip>>

\* the end of the for loop: return [] without images, else the while loop
StripScaled ==
    /\ spc = "scale"
    /\ Len(img_metadata) = Len(strip_images)
    /\ spc' = IF img_metadata = <<>> THEN "done" ELSE "loop"
    /\ UNCHANGED <<strip_settings, strip_images, img_metadata, current_y,
                   strip_pages, outsideStrip>>

\* one iteration of the while loop: a window is composited and appended
StripWindow ==
    /\ spc = "loop"
    /\ current_y < total_virtual_height
    /\ target_h >= 0
    /\ strip_pages' = Append(strip_pages,
                           Composite(WhiteCanvas(target_w, target_h), 1, current_y))
    /\ current_y' = current_y + step
    /\ UNCHANGED <<strip_settings, strip_images, img_metadata, spc,
                   outsideStrip>>

\* Image.new raises ValueError for a negative height
StripCanvasRaises ==
    /\ spc = "loop"
    /\ current_y < total_virtual_height
    /\ target_h < 0
    /\ spc' = "error"
    /\ UNCHANGED <<strip_settings, strip_images, img_metadata, current_y,
                   strip_pages, outsideStrip>>

\* the while condition is false: return segments
StripReturn ==
    /\ spc = "loop"
    /\ current_y >= total_virtual_height
    /\ spc' = "done"
    /\ UNCHANGED <<strip_settings, strip_images, img_metadata, current_y,
                   strip_pages, outsideStrip>>

StripNext ==
    \/ StripScale
    \/ StripScaleRaises
    \/ StripScaled
    \/ StripWindow
    \/ StripCanvasRaises
    \/ StripReturn

----------------------------------------------------------------------------
(* convert_chapter with long_strip off, and _extract_images *)

\* an archive has at most this many entries
MaxEntries == 3

\* the names of the entries of an archive
EntryNames ==
    { <<"1", "0", ".", "p", "n", "g">>, <<"2", ".", "p", "n", "g">>,
      <<"a", ".", "j", "p", "g">>, <<"n", ".", "t", "x", "t">>,
      <<".", "h", ".", "p", "n", "g">>,
      <<"_", "_", "m", "a", "c", "o", "s", "x", "/", "2", ".", "p", "n", "g">> }

\* what becomes of an entry: "good" decodes and converts, "broken" fails
\* to decode, "thin" decodes to an image so thin that the resize of
\* _process_main_page raises, "narrow" decodes to an image so narrow that
\* a band of _process_zoom_page is empty and its resize raises
EntryKinds == {"good", "broken", "thin", "narrow"}

Archives(n) ==
    UNION {[names -> EntryKinds] :
              names \in {ns \in SUBSET EntryNames : Cardinality(ns) <= n}}

\* the code point of a character of the names
Ord(c) ==
    CASE c = "." -> 46 [] c = "/" -> 47 [] c = "0" -> 48 [] c = "1" -> 49
      [] c = "2" -> 50 [] c = "_" -> 95 [] c = "a" -> 97 [] c = "c" -> 99
      [] c = "g" -> 103 [] c = "h" -> 104 [] c = "j" -> 106 [] c = "m" -> 109
      [] c = "n" -> 110 [] c = "o" -> 111 [] c = "p" -> 112 [] c = "s" -> 115
      [] c = "t" -> 116 [] c = "x" -> 120

\* an order that puts the shorter name first
ShorterFirst(a, b) ==
    \/ Len(a) < Len(b)
    \/ Len(a) = Len(b) /\ a[1] # b[1] /\ Ord(a[1]) < Ord(b[1])

\* a < b for two str
RECURSIVE StrLess(_, _)
StrLess(a, b) ==
    IF b = <<>> THEN FALSE
    ELSE IF a = <<>> THEN TRUE
    ELSE IF a[1] # b[1] THEN Ord(a[1]) < Ord(b[1])
    ELSE StrLess(Tail(a), Tail(b))

\* sorted(names), for names that differ from each other
RECURSIVE Sorted(_)
Sorted(names) ==
    IF names = {} THEN <<>>
    ELSE LET lo == CHOOSE a \in names : \A b \in names \ {a} : StrLess(a, b)
         IN  <<lo>> \o Sorted(names \ {lo})

\* f.lower().endswith(ext)
EndsWith(f, ext) == Len(f) >= Len(ext) /\ LitAt(f, Len(f) - Len(ext) + 1, ext)

\* the filter of _extract_images
IsImageFile(f) ==
    /\ \E ext \in { <<".", "j", "p", "g">>, <<".", "j", "p", "e", "g">>,
                    <<".", "p", "n", "g">>, <<".", "g", "i", "f">>,
                    <<".", "b", "m", "p">>, <<".", "w", "e", "b", "p">> } :
          EndsWith(f, ext)
    /\ ~\E i \in 1..Len(f) :
          LitAt(f, i, <<"_", "_", "m", "a", "c", "o", "s", "x">>)
    /\ ~(Basename(f) # <<>> /\ Basename(f)[1] = ".")

\* the loop of _extract_images: the files in order, those left out whose
\* read, open or load raises
RECURSIVE Decoded(_, _)
Decoded(img_files, k) ==
    IF k > Len(img_files) THEN <<>>
    ELSE IF archive[img_files[k]] = "broken" THEN Decoded(img_files, k + 1)
    ELSE <<img_files[k]>> \o Decoded(img_files, k + 1)

\* force_size under the default settings
ChapterTarget == <<480, 800>>

\* no call of convert_chapter is modelled
ChapterIdle ==
    /\ archive = <<>>
    /\ images = <<>>
    /\ main_xtc = <<>>
    /\ zoom_xtcs = <<>>
    /\ hpc = "idle"

ChapterCall ==
    /\ archive \in Archives(MaxEntries)
    /\ images = <<>>
    /\ main_xtc = <<>>
    /\ zoom_xtcs = <<>>
    /\ hpc = "extract"

outsideChapter == <<clsVars, bldVars, zoomVars, exVars, evtVars, stripVars,
                    pollVars, setVars, lastVars>>

\* images = _extract_images(cbz_path)
ChapterExtract ==
    /\ hpc = "extract"
    /\ images' = Decoded(Sorted({f \in DOMAIN archive : IsImageFile(f)}), 1)
    /\ hpc' = "main"
    /\ UNCHANGED <<archive, main_xtc, zoom_xtcs, outsideChapter>>

\* the main page of every image, each a canvas of the target size, and
\* build_xtc of them
ChapterMain ==
    /\ hpc = "main"
    /\ \A i \in 1..Len(images) : archive[images[i]] # "thin"
    /\ main_xtc' = [i \in 1..Len(images) |->
                      [src |-> images[i], size |-> ChapterTarget]]
    /\ hpc' = "zoom"
    /\ UNCHANGED <<archive, images, zoom_xtcs, outsideChapter>>

\* _process_main_page raises: no container is written
ChapterMainRaises ==
    /\ hpc = "main"
    /\ \E i \in 1..Len(images) : archive[images[i]] = "thin"
    /\ hpc' = "error"
    /\ UNCHANGED <<archive, images, main_xtc, zoom_xtcs, outsideChapter>>

\* one round of the loop over enumerate(images, start=1)
ChapterZoom ==
    /\ hpc = "zoom"
    /\ Len(zoom_xtcs) < Len(images)
    /\ LET page_idx == Len(zoom_xtcs) + 1
       IN  /\ archive[images[page_idx]] # "narrow"
           /\ zoom_xtcs' = Append(zoom_xtcs,
                  [page_idx |-> page_idx, src |-> images[page_idx]])
    /\ UNCHANGED <<archive, images, main_xtc, hpc, outsideChapter>>

\* _process_zoom_page raises in that round
ChapterZoomRaises ==
    /\ hpc = "zoom"
    /\ Len(zoom_xtcs) < Len(images)
    /\ archive[images[Len(zoom_xtcs) + 1]] = "narrow"
    /\ hpc' = "error"
    /\ UNCHANGED <<archive, images, main_xtc, zoom_xtcs, outsideChapter>>

ChapterReturn ==
    /\ hpc = "zoom"
    /\ Len(zoom_xtcs) = Len(images)
    /\ hpc' = "done"
    /\ UNCHANGED <<archive, images, main_xtc, zoom_xtcs, outsideChapter>>

ChapterNext ==
    \/ ChapterExtract
    \/ ChapterMain
    \/ ChapterMainRaises
    \/ ChapterZoom
    \/ ChapterZoomRaises
    \/ ChapterReturn

----------------------------------------------------------------------------
(* convert_pdf_to_epub (book_converter/converter.py) *)

\* the largest poll_interval of a call; the smallest is -1
MaxInterval == 3

\* the largest timeout of a call; the smallest is -1
MaxTimeout == 4

\* polls stops counting here
MaxPolls == 6

\* no call of convert_pdf_to_epub is modelled
PollIdle ==
    /\ poll_interval = 0
    /\ timeout = 0
    /\ elapsed = 0
    /\ polls = 0
    /\ epub_out = "absent"
    /\ ppc = "idle"

\* the call: the output folder may hold a file of an earlier conversion
PollCall ==
    /\ poll_interval \in -1..MaxInterval
    /\ timeout \in -1..MaxTimeout
    /\ elapsed = 0
    /\ polls = 0
    /\ epub_out \in {"absent", "empty", "ready"}
    /\ ppc = "copy"

outsidePoll == <<clsVars, bldVars, zoomVars, exVars, evtVars, stripVars,
                 chapVars, setVars, lastVars>>

\* the converter at the other side of the shared folder creates the output
\* file and fills it, when it likes
CalibreWrites ==
    /\ ppc \in {"copy", "loop", "sleep"}
    /\ \/ epub_out = "absent" /\ epub_out' = "empty"
       \/ epub_out = "empty" /\ epub_out' = "ready"
    /\ UNCHANGED <<poll_interval, timeout, elapsed, polls, ppc, outsidePoll>>

\* os.makedirs twice, shutil.copy2, elapsed = 0
PollCopy ==
    /\ ppc = "copy"
    /\ ppc' = "loop"
    /\ UNCHANGED <<poll_interval, timeout, elapsed, polls, epub_out,
                   outsidePoll>>

\* os.makedirs or shutil.copy2 raises OSError
PollCopyRaises ==
    /\ ppc = "copy"
    /\ ppc' = "error"
    /\ UNCHANGED <<poll_interval, timeout, elapsed, polls, epub_out,
                   outsidePoll>>

\* the head of a round of the while loop: one look at the output file
PollLook ==
    /\ ppc = "loop"
    /\ elapsed < timeout
    /\ polls' = Min(polls + 1, MaxPolls)
    /\ ppc' = IF epub_out = "ready" THEN "returned" ELSE "sleep"
    /\ UNCHANGED <<poll_interval, timeout, elapsed, epub_out, outsidePoll>>

\* time.sleep(poll_interval), which raises ValueError for a negative
\* length, and elapsed += poll_interval
PollSleep ==
    /\ ppc = "sleep"
    /\ IF poll_interval < 0
         THEN ppc' = "error" /\ elapsed' = elapsed
         ELSE ppc' = "loop" /\ elapsed' = elapsed + poll_interval
    /\ UNCHANGED <<poll_interval, timeout, polls, epub_out, outsidePoll>>

\* the loop is left: os.remove, raise TimeoutError
PollTimeout ==
    /\ ppc = "loop"
    /\ elapsed >= timeout
    /\ ppc' = "timeout"
    /\ UNCHANGED <<poll_interval, timeout, elapsed, polls, epub_out,
                   outsidePoll>>

\* a step of convert_pdf_to_epub itself
PollStep ==
    \/ PollCopy
    \/ PollCopyRaises
    \/ PollLook
    \/ PollSleep
    \/ PollTimeout

PollNext ==
    \/ CalibreWrites
    \/ PollCopy
    \/ PollCopyRaises
    \/ PollLook
    \/ PollSleep
    \/ PollTimeout

----------------------------------------------------------------------------
(* _parse_settings (manga_formatter/converter.py) *)

DEFAULT_SETTINGS ==
    [dithering |-> TRUE, contrast |-> 4, target_width |-> 480,
     target_height |-> 800, long_strip |-> FALSE, overlap |-> 33]

\* raw with every key: each key with one of the values given for it
FullSettings ==
    [dithering : BOOLEAN, long_strip : BOOLEAN,
     overlap : {-5, 0, 50, 90, 95}, contrast : {-1, 0, 8, 9},
     target_width : {-1, 0, 1, 600}, target_height : {-1, 0, 1024}]

\* the dicts given as raw: any of the keys of one of those
RawSettings ==
    {[k \in keys |-> full[k]] :
        keys \in SUBSET DOMAIN DEFAULT_SETTINGS, full \in FullSettings}

Max(a, b) == IF a >= b THEN a ELSE b

\* _parse_settings for values that are already bool and int
_parse_settings(r) ==
    [k \in DOMAIN DEFAULT_SETTINGS |->
        IF k \notin DOMAIN r THEN DEFAULT_SETTINGS[k]
        ELSE CASE k = "overlap" -> Max(0, Min(90, r[k]))
               [] k = "contrast" -> Max(0, Min(8, r[k]))
               [] OTHER -> r[k]]

\* no call of _parse_settings is modelled
SettingsIdle ==
    /\ raw = <<>>
    /\ parsed = <<>>
    /\ qpc = "idle"

SettingsCall ==
    /\ raw \in RawSettings
    /\ parsed = <<>>
    /\ qpc = "call"

outsideSettings == <<clsVars, bldVars, zoomVars, exVars, evtVars, stripVars,
                     chapVars, pollVars, lastVars>>

\* s = _parse_settings(settings), as convert_chapter starts
SettingsReturn ==
    /\ qpc = "call"
    /\ parsed' = _parse_settings(raw)
    /\ qpc' = "done"
    /\ UNCHANGED <<raw, outsideSettings>>

----------------------------------------------------------------------------
(* render_book as a generator (book_converter/converter.py) *)

\* a book has at most this many chapters, a chapter at most this many
\* pages
MaxBookChapters == 3
MaxChapterPages == 2

\* what rendering a chapter gives: its number of pages, or -1 when
\* writing the html, fitz or PIL raises
RenderOutcomes == (-1)..MaxChapterPages

RECURSIVE OutcomeLists(_)
OutcomeLists(n) ==
    IF n = 0 THEN {<<>>}
    ELSE LET shorter == OutcomeLists(n - 1)
         IN  shorter \cup {Append(l, o) : l \in shorter, o \in RenderOutcomes}

\* no generator of render_book is modelled
RenderIdle ==
    /\ chapters_data = <<>>
    /\ ch_idx = 0
    /\ all_pages = 0
    /\ render_dir = "none"
    /\ rpc = "idle"

\* render_book(parsed, settings) is called: a generator that has not run
RenderCall ==
    /\ chapters_data \in OutcomeLists(MaxBookChapters)
    /\ ch_idx = 0
    /\ all_pages = 0
    /\ render_dir = "none"
    /\ rpc = "created"

\* the finally clause
rmtree == "removed"

\* a generator that is closed without running anything
NoFinally(pc, dir) == dir

\* the directory after GeneratorExit is raised at the yield the generator
\* is suspended at: inside the try the finally clause runs
OnGeneratorExit(pc, dir) == IF pc = "progress" THEN rmtree ELSE dir

\* the first next(): the head of render_book up to tempfile.mkdtemp, then
\* the first progress event, or the result event of a book of no chapters
RenderStart ==
    /\ rpc = "created"
    /\ IF chapters_data = <<>>
         THEN render_dir' = rmtree /\ rpc' = "result" /\ ch_idx' = ch_idx
         ELSE render_dir' = "exists" /\ rpc' = "progress" /\ ch_idx' = 1
    /\ UNCHANGED <<chapters_data, all_pages, outsideRender>>

\* the first next() raises before the try: _merge_settings or mkdtemp
RenderStartRaises ==
    /\ rpc = "created"
    /\ rpc' = "failed"
    /\ UNCHANGED <<chapters_data, ch_idx, all_pages, render_dir, outsideRender>>

\* a next() after a progress event: the chapter is rendered, then the
\* next progress event, or the finally clause and the result event
RenderChapter ==
    /\ rpc = "progress"
    /\ chapters_data[ch_idx] >= 0
    /\ all_pages' = all_pages + chapters_data[ch_idx]
    /\ IF ch_idx < Len(chapters_data)
         THEN ch_idx' = ch_idx + 1 /\ rpc' = "progress"
              /\ render_dir' = render_dir
         ELSE ch_idx' = ch_idx /\ rpc' = "result" /\ render_dir' = rmtree
    /\ UNCHANGED <<chapters_data, outsideRender>>

\* rendering the chapter raises: the finally clause, then the exception
\* leaves the generator
RenderChapterRaises ==
    /\ rpc = "progress"
    /\ chapters_data[ch_idx] < 0
    /\ render_dir' = rmtree
    /\ rpc' = "failed"
    /\ UNCHANGED <<chapters_data, ch_idx, all_pages, outsideRender>>

\* the next() after the result event: StopIteration
RenderExhausted ==
    /\ rpc = "result"
    /\ rpc' = "exhausted"
    /\ UNCHANGED <<chapters_data, ch_idx, all_pages, render_dir, outsideRender>>

\* the consumer stops iterating: the generator is closed, by close() or
\* when it is finalized
RenderClose ==
    /\ rpc \in {"created", "progress", "result"}
    /\ render_dir' = OnGeneratorExit(rpc, render_dir)
    /\ rpc' = "closed"
    /\ UNCHANGED <<chapters_data, ch_idx, all_pages, outsideRender>>

RenderNext ==
    \/ RenderStart
    \/ RenderStartRaises
    \/ RenderChapter
    \/ RenderChapterRaises
    \/ RenderExhausted
    \/ RenderClose

----------------------------------------------------------------------------
(* convert_chapter with long_strip on (manga_formatter/converter.py) *)

\* a chapter has at most this many images and gives at most this many
\* long-strip pages
MaxLongImages == 2
MaxLongPages == 2

\* the largest contrast _parse_settings returns
MaxContrast == 8

\* no call of convert_chapter in long-strip mode is modelled
LongIdle ==
    /\ heap = <<>>
    /\ s_ref = 0
    /\ zoom_ref = 0
    /\ stretched = <<>>
    /\ long_pages = 0
    /\ zoomed = 0
    /\ lpc = "idle"

\* the call after s = _parse_settings(settings) and _extract_images: s is
\* the first dict of the heap, no image has been stretched, and the strip
\* of the images will give long_pages pages (none without images)
LongCall ==
    /\ \E c \in 0..MaxContrast, d \in BOOLEAN :
          heap = <<[contrast |-> c, dithering |-> d]>>
    /\ s_ref = 1
    /\ zoom_ref = 0
    /\ stretched \in UNION {[1..n -> {<<>>}] : n \in 0..MaxLongImages}
    /\ long_pages \in 0..MaxLongPages
    /\ (stretched = <<>> => long_pages = 0)
    /\ zoomed = 0
    /\ lpc = "strip"

\* _apply_contrast(img, level) on an image with the stretches in done:
\* level 0 returns the image as it is
_apply_contrast(done, level) ==
    IF level = 0 THEN done ELSE Append(done, level)

\* a name for the same dict: no copy is made
SameDict(h, ref) == <<h, ref>>

\* dict(s): a new dict with the items of h[ref]; the heap and the new
\* reference
DictCopy(h, ref) == <<Append(h, h[ref]), Len(h) + 1>>

\* segments = _process_long_strip(images, s): every image is stretched
\* with s["contrast"]
LongStrip ==
    /\ lpc = "strip"
    /\ stretched' = [i \in DOMAIN stretched |->
                       _apply_contrast(stretched[i], heap[s_ref].contrast)]
    /\ lpc' = "main"
    /\ UNCHANGED <<heap, s_ref, zoom_ref, long_pages, zoomed, outsideLong>>

\* the pages are dithered when s["dithering"] and build_xtc writes the main
\* container
LongMain ==
    /\ lpc = "main"
    /\ lpc' = "copy"
    /\ UNCHANGED <<heap, s_ref, zoom_ref, stretched, long_pages, zoomed,
                   outsideLong>>

\* zoom_settings = dict(s); zoom_settings["contrast"] = 0
LongZoomSettings ==
    /\ lpc = "copy"
    /\ LET made == DictCopy(heap, s_ref)
       IN  /\ zoom_ref' = made[2]
           /\ heap' = [made[1] EXCEPT ![made[2]].contrast = 0]
    /\ lpc' = "zoom"
    /\ UNCHANGED <<s_ref, stretched, long_pages, zoomed, outsideLong>>

\* one round of the loop over the pages: _process_zoom_page(seg_img,
\* zoom_settings) stretches the page, and with it the rows of every image,
\* with zoom_settings["contrast"]
LongZoom ==
    /\ lpc = "zoom"
    /\ zoomed < long_pages
    /\ stretched' = [i \in DOMAIN stretched |->
                       _apply_contrast(stretched[i], heap[zoom_ref].contrast)]
    /\ zoomed' = zoomed + 1
    /\ UNCHANGED <<heap, s_ref, zoom_ref, long_pages, lpc, outsideLong>>

LongReturn ==
    /\ lpc = "zoom"
    /\ zoomed = long_pages
    /\ lpc' = "done"
    /\ UNCHANGED <<heap, s_ref, zoom_ref, stretched, long_pages, zoomed,
                   outsideLong>>

LongNext ==
    \/ LongStrip
    \/ LongMain
    \/ LongZoomSettings
    \/ LongZoom
    \/ LongReturn

----------------------------------------------------------------------------
(* convert_continue (manga_formatter/routes.py and app.py) *)

\* a request assigns at most this many files
MaxAssignments == 2

\* the chapters the files of a session can be recognized as, with the path
\* of each
SessionChapters == {1, 2}
RecognizedPath(c) == <<"r", c>>

\* the base names of the files the client can name: the last is in no
\* session
ReviewNames == {"u1.cbz", "u2.cbz", "zz.cbz"}
UnrecognizedPath(name) == <<"input", name>>

\* the chapter strings a client sends; int() raises ValueError for the last
ChapterStrings == {"1", "2", "3", "x"}

\* int(ch_num_str), -1 standing for ValueError
IntOfString(str) ==
    CASE str = "1" -> 1 [] str = "2" -> 2 [] str = "3" -> 3 [] OTHER -> -1

\* the items of the JSON object assignments, in its order: no name twice
RECURSIVE AssignmentLists(_)
AssignmentLists(n) ==
    IF n = 0 THEN {<<>>}
    ELSE LET shorter == AssignmentLists(n - 1)
         IN  shorter \cup
             {Append(l, <<name, str>>) :
                 l \in {k \in shorter : Len(k) = n - 1},
                 name \in ReviewNames, str \in ChapterStrings}

NoRepeatedName(l) == \A i, j \in DOMAIN l : l[i][1] = l[j][1] => i = j

\* no request to /convert/continue is modelled
ContinueIdle ==
    /\ variant = "none"
    /\ session = [recognized |-> <<>>, unrecognized |-> {}]
    /\ assignments = <<>>
    /\ final_map = <<>>
    /\ adone = 0
    /\ kpc = "idle"

\* a request for a stored session, which has at least one unrecognized
\* file; final_map = recognized.copy() in routes.py, and in app.py the
\* chapters of recognized are in the output tree since /convert
ContinueCall ==
    /\ variant \in {"routes", "app"}
    /\ \E chs \in SUBSET SessionChapters, names \in SUBSET {"u1.cbz", "u2.cbz"} :
          /\ names # {}
          /\ session = [recognized |-> [c \in chs |-> RecognizedPath(c)],
                        unrecognized |-> names]
    /\ assignments \in {l \in AssignmentLists(MaxAssignments) : NoRepeatedName(l)}
    /\ final_map = session.recognized
    /\ adone = 0
    /\ kpc = "loop"

\* the map with ch_num set to cbz_path
WithChapter(map, ch_num, cbz_path) ==
    [c \in DOMAIN map \cup {ch_num} |-> IF c = ch_num THEN cbz_path ELSE map[c]]

\* app.py: `if cbz_path and ch_num not in recognized`
AssignUnlessRecognized(map, recognized_map, ch_num, cbz_path) ==
    IF ch_num \notin DOMAIN recognized_map
    THEN WithChapter(map, ch_num, cbz_path) ELSE map

\* routes.py: `if cbz_path: final_map[ch_num] = cbz_path`
AssignAlways(map, recognized_map, ch_num, cbz_path) ==
    WithChapter(map, ch_num, cbz_path)

\* one round of `for filename, ch_num_str in assignments.items()`
ContinueAssign ==
    /\ kpc = "loop"
    /\ adone < Len(assignments)
    /\ LET filename == assignments[adone + 1][1]
           ch_num   == IntOfString(assignments[adone + 1][2])
       IN  /\ ch_num # -1
           /\ final_map' =
                IF filename \notin session.unrecognized THEN final_map
                ELSE IF variant = "routes"
                THEN AssignAlways(final_map, session.recognized, ch_num,
                                  UnrecognizedPath(filename))
                ELSE AssignUnlessRecognized(final_map, session.recognized,
                                            ch_num, UnrecognizedPath(filename))
    /\ adone' = adone + 1
    /\ UNCHANGED <<variant, session, assignments, kpc, outsideContinue>>

\* int(ch_num_str) raises: the 500 response
ContinueRaises ==
    /\ kpc = "loop"
    /\ adone < Len(assignments)
    /\ IntOfString(assignments[adone + 1][2]) = -1
    /\ kpc' = "error"
    /\ UNCHANGED <<variant, session, assignments, final_map, adone,
                   outsideContinue>>

\* the loop is over: the chapters of final_map are what is converted and
\* zipped
ContinueConvert ==
    /\ kpc = "loop"
    /\ adone = Len(assignments)
    /\ kpc' = "convert"
    /\ UNCHANGED <<variant, session, assignments, final_map, adone,
                   outsideContinue>>

ContinueNext ==
    \/ ContinueAssign
    \/ ContinueRaises
    \/ ContinueConvert

----------------------------------------------------------------------------
(* The conversion streams: _stream_conversion (manga_formatter/routes.py) *)
(* and _stream_epub_to_xtc (book_converter/routes.py)                     *)

\* a stream converts at most this many chapters
MaxStreamChapters == 3

\* no stream is modelled
StreamIdle ==
    /\ skind = "none"
    /\ s_total = 0
    /\ s_conv = 0
    /\ emitted = <<>>
    /\ zipped = FALSE
    /\ stored = FALSE
    /\ tpc = "idle"

\* the generator has been given to Response and has not run
StreamCall ==
    /\ skind \in {"manga", "book"}
    /\ s_total \in 0..MaxStreamChapters
    /\ s_conv = 0
    /\ emitted = <<>>
    /\ zipped = FALSE
    /\ stored = FALSE
    /\ tpc = "start"

\* an exception may leave the code run after any yield
RaisesAnywhere(k, pc) == pc \in {"start", "parsing", "event", "final", "zipmsg", "doneyield"}

\* where the code run on the next resume can raise an Exception: the book
\* stream starts with a yield, and nothing that can raise follows the yield
\* of done
CanRaise(k, pc) ==
    \/ pc \in {"parsing", "event", "final", "zipmsg"}
    \/ pc = "start" /\ k = "manga"

\* _stream_conversion up to the next yield inside the for loop: the
\* chapter of the last event is converted, and convert_chapters yields the
\* event of the next chapter, or its last event
MangaResume ==
    /\ skind = "manga"
    /\ tpc \in {"start", "event"}
    /\ LET conv == IF tpc = "event" THEN s_conv + 1 ELSE s_conv
       IN  /\ s_conv' = conv
           /\ tpc' = IF conv < s_total THEN "event" ELSE "final"
    /\ emitted' = Append(emitted, "progress")
    /\ UNCHANGED <<skind, s_total, zipped, stored, outsideStream>>

\* convert_chapters is exhausted; the event "Zipping files..."
MangaZipEvent ==
    /\ skind = "manga"
    /\ tpc = "final"
    /\ emitted' = Append(emitted, "progress")
    /\ tpc' = "zipmsg"
    /\ UNCHANGED <<skind, s_total, s_conv, zipped, stored,
                   outsideStream>>

\* _zip_directory, save_to_library with its exception caught, zip_path and
\* manga_title put into the session, the event done
MangaZipAndDone ==
    /\ skind = "manga"
    /\ tpc = "zipmsg"
    /\ zipped' = TRUE
    /\ stored' = TRUE
    /\ emitted' = Append(emitted, "done")
    /\ tpc' = "doneyield"
    /\ UNCHANGED <<skind, s_total, s_conv, outsideStream>>

\* the first event of _stream_epub_to_xtc: "Parsing EPUB..."
BookParseEvent ==
    /\ skind = "book"
    /\ tpc = "start"
    /\ emitted' = Append(emitted, "progress")
    /\ tpc' = "parsing"
    /\ UNCHANGED <<skind, s_total, s_conv, zipped, stored,
                   outsideStream>>

\* parse_epub, or the chapter of the last event is rendered; then the
\* progress event of the next chapter is passed on, or render_book yields
\* its result and the event "Building XTC file..." follows
BookRenderEvent ==
    /\ skind = "book"
    /\ tpc \in {"parsing", "event"}
    /\ LET conv == IF tpc = "event" THEN s_conv + 1 ELSE s_conv
       IN  /\ s_conv' = conv
           /\ tpc' = IF conv < s_total THEN "event" ELSE "zipmsg"
    /\ emitted' = Append(emitted, "progress")
    /\ UNCHANGED <<skind, s_total, zipped, stored, outsideStream>>

\* build_book_xtc, save_to_library with its exception caught, the event
\* done
BookBuildAndDone ==
    /\ skind = "book"
    /\ tpc = "zipmsg"
    /\ zipped' = TRUE
    /\ emitted' = Append(emitted, "done")
    /\ tpc' = "doneyield"
    /\ UNCHANGED <<skind, s_total, s_conv, stored, outsideStream>>

\* the code run on a resume raises an Exception: the except clause yields
\* the event error
StreamRaises ==
    /\ CanRaise(skind, tpc)
    /\ emitted' = Append(emitted, "error")
    /\ tpc' = "erroryield"
    /\ UNCHANGED <<skind, s_total, s_conv, zipped, stored,
                   outsideStream>>

\* the resume after done or error: the generator returns (the book stream
\* removes work_dir first, and render_book is exhausted)
StreamEnd ==
    /\ tpc \in {"doneyield", "erroryield"}
    /\ tpc' = "ended"
    /\ UNCHANGED <<skind, s_total, s_conv, emitted, zipped,
                   stored, outsideStream>>

\* the client goes away: the server closes the generator at the yield it
\* is suspended at, GeneratorExit is no Exception and no event follows
StreamClose ==
    /\ tpc \in {"start", "parsing", "event", "final", "zipmsg", "doneyield",
                "erroryield"}
    /\ tpc' = "closed"
    /\ UNCHANGED <<skind, s_total, s_conv, emitted, zipped,
                   stored, outsideStream>>

StreamNext ==
    \/ MangaResume
    \/ MangaZipEvent
    \/ MangaZipAndDone
    \/ BookParseEvent
    \/ BookRenderEvent
    \/ BookBuildAndDone
    \/ StreamRaises
    \/ StreamEnd
    \/ StreamClose

----------------------------------------------------------------------------
(* Concurrent calls of convert_pdf_to_epub on the shared Calibre folder *)

\* the calls, and the looks at the output a call has before its timeout
MaxCalls == 2
MaxLooks == 2

PdfCalls == 1..MaxCalls

\* the base names the PDFs of the calls have
PdfNames == {"a.pdf", "b.pdf"}

\* no file of that name
Absent == -1

\* the EPUB of an earlier conversion
Leftover == 0

\* no call on the shared folder is modelled
SharedIdle ==
    /\ pdf_name = <<>>
    /\ input_dir = <<>>
    /\ output_dir = <<>>
    /\ call_pc = <<>>
    /\ call_looks = <<>>
    /\ call_result = <<>>

\* one call or more, each with the base name of its PDF; a file in input/
\* holds the number of the call that copied it there, a file in output/
\* the number of the call whose PDF it was made from; output/ may hold
\* EPUBs of earlier conversions, which nothing in the code removes
SharedCall ==
    /\ pdf_name \in [PdfCalls -> PdfNames]
    /\ input_dir = [n \in PdfNames |-> Absent]
    /\ output_dir \in [PdfNames -> {Absent, Leftover}]
    /\ call_pc \in [PdfCalls -> {"copy", "none"}]
    /\ \E c \in PdfCalls : call_pc[c] = "copy"
    /\ \A c \in PdfCalls : call_pc[c] = "none" => pdf_name[c] = "a.pdf"
    /\ call_looks = [c \in PdfCalls |-> 0]
    /\ call_result = [c \in PdfCalls |-> Absent]

\* os.path.exists(epub_out) and os.path.getsize(epub_out) > 0
OutputReady(c, made_from) == made_from # Absent

\* shutil.copy2(pdf_path, dest) with dest = input/<base name>
SharedStage ==
    \E c \in PdfCalls :
        /\ call_pc[c] = "copy"
        /\ input_dir' = [input_dir EXCEPT ![pdf_name[c]] = c]
        /\ call_pc' = [call_pc EXCEPT ![c] = "loop"]
        /\ UNCHANGED <<pdf_name, output_dir, call_looks, call_result,
                       outsideShared>>

\* the converter turns a staged PDF into output/<base name>.epub
SharedCalibre ==
    \E n \in PdfNames :
        /\ input_dir[n] # Absent
        /\ output_dir[n] # input_dir[n]
        /\ output_dir' = [output_dir EXCEPT ![n] = input_dir[n]]
        /\ UNCHANGED <<pdf_name, input_dir, call_pc, call_looks, call_result,
                       outsideShared>>

\* one round of the while loop: the output is there, os.remove(dest) and
\* return epub_out; or sleep
SharedLook ==
    \E c \in PdfCalls :
        /\ call_pc[c] = "loop"
        /\ call_looks[c] < MaxLooks
        /\ call_looks' = [call_looks EXCEPT ![c] = @ + 1]
        /\ IF OutputReady(c, output_dir[pdf_name[c]])
             THEN /\ input_dir' = [input_dir EXCEPT ![pdf_name[c]] = Absent]
                  /\ call_result' =
                        [call_result EXCEPT ![c] = output_dir[pdf_name[c]]]
                  /\ call_pc' = [call_pc EXCEPT ![c] = "returned"]
             ELSE UNCHANGED <<input_dir, call_result, call_pc>>
        /\ UNCHANGED <<pdf_name, output_dir, outsideShared>>

\* elapsed has reached timeout: os.remove(dest), raise TimeoutError
SharedTimeout ==
    \E c \in PdfCalls :
        /\ call_pc[c] = "loop"
        /\ call_looks[c] = MaxLooks
        /\ input_dir' = [input_dir EXCEPT ![pdf_name[c]] = Absent]
        /\ call_pc' = [call_pc EXCEPT ![c] = "timeout"]
        /\ UNCHANGED <<pdf_name, output_dir, call_looks, call_result,
                       outsideShared>>

SharedNext ==
    \/ SharedStage
    \/ SharedCalibre
    \/ SharedLook
    \/ SharedTimeout

----------------------------------------------------------------------------
(* The builders by counts: pages beyond what "<H" holds *)

\* how far below and beyond the largest 16-bit value the page counts go
MaxBeyond == 2

\* the "H" of the struct formats holds 0..65535
UShortEnd == 65536

\* len(pages) of the calls
PageCounts == 0..1 \cup (UShortEnd - MaxBeyond)..(UShortEnd + MaxBeyond)

\* how the pages of a book fall into chapters: none, one chapter, or two
\* chapters of which one has a page at most
ChapterSplits(n) ==
    {<<>>, <<n>>}
    \cup {<<k, n - k>> : k \in {0, 1} \cap 0..n}
    \cup {<<n - k, k>> : k \in {0, 1} \cap 0..n}

\* the output path does not exist
Unopened == [opened |-> FALSE, pageCount |-> <<>>, index |-> 0, blobs |-> 0]

\* no call of a builder is counted
CountIdle ==
    /\ c_kind = "manga"
    /\ n_pages = 0
    /\ c_chapters = <<>>
    /\ n_blobs = 0
    /\ index_len = 0
    /\ packed = <<>>
    /\ c_file = Unopened
    /\ npc = "idle"

\* the state at the entry of build_xtc or build_book_xtc
CountCall ==
    /\ c_kind \in {"manga", "book"}
    /\ n_pages \in PageCounts
    /\ IF c_kind = "book"
       THEN \E counts \in ChapterSplits(n_pages) :
                c_chapters = ChapterRecords(counts)
       ELSE c_chapters = <<>>
    /\ n_blobs = 0
    /\ index_len = 0
    /\ packed = <<>>
    /\ c_file = Unopened
    /\ npc = "begin"

\* a pack that stores the count reduced modulo 2^16
PackWraps(v) == LE(v % UShortEnd, 2)

\* struct.pack of a value as "H": its two bytes, or struct.error, here <<>>
PackH(v) == IF FitsU(v, 2) THEN LE(v, 2) ELSE <<>>

\* build_book_xtc: _pack_metadata and the loop of _pack_chapter
CountPackChapters ==
    /\ c_kind = "book" /\ npc = "begin"
    /\ npc' = IF \/ PackH(Len(c_chapters)) = <<>>
                 \/ \E c \in 1..Len(c_chapters) :
                        \/ PackH(c_chapters[c][2]) = <<>>
                        \/ PackH(c_chapters[c][3]) = <<>>
              THEN "error" ELSE "pages"
    /\ UNCHANGED <<c_kind, n_pages, c_chapters, n_blobs, index_len, packed,
                   c_file, outsideCount>>

\* the blobs of all pages, and an index entry of 16 bytes for each
CountEncode ==
    /\ \/ c_kind = "manga" /\ npc = "begin"
       \/ c_kind = "book" /\ npc = "pages"
    /\ n_blobs' = n_pages
    /\ index_len' = n_pages * index_entry_size
    /\ npc' = "header"
    /\ UNCHANGED <<c_kind, n_pages, c_chapters, packed, c_file, outsideCount>>

\* struct.pack of the XTC header with page_count, total_pages as "H"
CountPackHeader ==
    /\ npc = "header"
    /\ packed' = PackH(n_blobs)
    /\ npc' = IF packed' = <<>> THEN "error" ELSE "open"
    /\ UNCHANGED <<c_kind, n_pages, c_chapters, n_blobs, index_len, c_file,
                   outsideCount>>

\* open(out_path, "wb")
CountOpen ==
    /\ npc = "open"
    /\ c_file' = [Unopened EXCEPT !.opened = TRUE]
    /\ npc' = "write"
    /\ UNCHANGED <<c_kind, n_pages, c_chapters, n_blobs, index_len, packed,
                   outsideCount>>

\* the writes of the with block, and its end
CountWrite ==
    /\ npc = "write"
    /\ c_file' = [opened |-> TRUE, pageCount |-> packed, index |-> index_len,
                  blobs |-> n_blobs]
    /\ npc' = "done"
    /\ UNCHANGED <<c_kind, n_pages, c_chapters, n_blobs, index_len, packed,
                   outsideCount>>

CountNext ==
    \/ CountPackChapters
    \/ CountEncode
    \/ CountPackHeader
    \/ CountOpen
    \/ CountWrite

----------------------------------------------------------------------------
(* The /convert request of the manga formatter (routes.py, app.py) *)

\* at most this many uploaded files, or .cbz files in the host directory
MaxUploads == 3

\* f.filename of an uploaded file; <<>> is the empty file name
UploadNames ==
    { <<>>, <<"a", ".", "c", "b", "z">>, <<"b", ".", "t", "x", "t">> }

RECURSIVE UploadLists(_)
UploadLists(n) ==
    IF n = 0 THEN {<<>>}
    ELSE {Append(l, f) : l \in UploadLists(n - 1), f \in UploadNames}

\* host_path is empty or no directory
NoHostDir == -1

\* no response yet
NoResponse == 0

\* no request is modelled
RequestIdle ==
    /\ handler = "routes"
    /\ source_mode = "upload"
    /\ host_cbz = NoHostDir
    /\ req_files = <<>>
    /\ cbz_count = 0
    /\ work_dir = "none"
    /\ in_session = FALSE
    /\ http_status = NoResponse
    /\ mpc = "idle"

\* a request with a title; in hostdir mode the .cbz files of the host
\* directory, in upload mode the files of the form
RequestCall ==
    /\ handler \in {"routes", "app"}
    /\ source_mode \in {"hostdir", "upload"}
    /\ IF source_mode = "hostdir"
       THEN /\ host_cbz \in {NoHostDir} \cup 0..MaxUploads
            /\ req_files = <<>>
       ELSE /\ host_cbz = NoHostDir
            /\ req_files \in UNION {UploadLists(n) : n \in 0..MaxUploads}
    /\ cbz_count = 0
    /\ work_dir = "none"
    /\ in_session = FALSE
    /\ http_status = NoResponse
    /\ mpc = "begin"

\* f.filename and f.filename.lower().endswith(".cbz")
IsCbzUpload(f) == f # <<>> /\ EndsWith(f, <<".", "c", "b", "z">>)

\* the files the upload branch saves
SavedUploads == {i \in 1..Len(req_files) : IsCbzUpload(req_files[i])}

\* the branch returns 400 "Invalid host directory" or "No CBZ files uploaded"
NothingGiven ==
    IF source_mode = "hostdir" THEN host_cbz = NoHostDir
    ELSE req_files = <<>> \/ \A i \in 1..Len(req_files) : req_files[i] = <<>>

\* the except clause: routes.py removes work_dir, app.py removes it unless a
\* session holds it
OnException(session_holds) ==
    IF handler = "app" /\ session_holds THEN "exists" ELSE "removed"

\* work_dir = tempfile.mkdtemp(prefix="manga_fmt_")
RequestMkdtemp ==
    /\ mpc = "begin"
    /\ work_dir' = "exists"
    /\ mpc' = "try"
    /\ UNCHANGED <<handler, source_mode, host_cbz, req_files, cbz_count,
                   in_session, http_status, outsideRequest>>

\* cbz_paths is gathered: a return of 400 from inside the try block, or on
\* to classify_cbz_files
RequestGather ==
    /\ mpc = "try"
    /\ IF NothingGiven
       THEN /\ http_status' = 400
            /\ mpc' = "responded"
            /\ UNCHANGED cbz_count
       ELSE /\ cbz_count' = IF source_mode = "hostdir" THEN host_cbz
                            ELSE Cardinality(SavedUploads)
            /\ IF cbz_count' = 0
               THEN http_status' = 400 /\ mpc' = "responded"
               ELSE mpc' = "classify" /\ UNCHANGED http_status
    /\ UNCHANGED <<handler, source_mode, host_cbz, req_files, work_dir,
                   in_session, outsideRequest>>

\* os.listdir, f.save, classify_cbz_files, os.makedirs or convert_chapters
\* raises: control goes to the except clause
RequestRaises ==
    /\ \/ mpc = "try" /\ ~NothingGiven
       \/ mpc = "classify"
    /\ mpc' = "except"
    /\ UNCHANGED <<handler, source_mode, host_cbz, req_files, cbz_count,
                   work_dir, in_session, http_status, outsideRequest>>

\* some file is unrecognized: the session is stored with work_dir and the
\* needs_review answer is returned
RequestReview ==
    /\ mpc = "classify"
    /\ in_session' = TRUE
    /\ http_status' = 200
    /\ mpc' = "responded"
    /\ UNCHANGED <<handler, source_mode, host_cbz, req_files, cbz_count,
                   work_dir, outsideRequest>>

\* every file is recognized: routes.py stores a session with work_dir and
\* returns the stream, app.py returns the zip with send_file
RequestDeliver ==
    /\ mpc = "classify"
    /\ in_session' = (handler = "routes")
    /\ http_status' = 200
    /\ mpc' = "responded"
    /\ UNCHANGED <<handler, source_mode, host_cbz, req_files, cbz_count,
                   work_dir, outsideRequest>>

\* except Exception: the clean-up, and the answer 500
RequestExcept ==
    /\ mpc = "except"
    /\ work_dir' = OnException(in_session)
    /\ http_status' = 500
    /\ mpc' = "responded"
    /\ UNCHANGED <<handler, source_mode, host_cbz, req_files, cbz_count,
                   in_session, outsideRequest>>

RequestNext ==
    \/ RequestMkdtemp
    \/ RequestGather
    \/ RequestRaises
    \/ RequestReview
    \/ RequestDeliver
    \/ RequestExcept

\* every call of the last sections is idle
LastIdle == RenderIdle /\ LongIdle /\ ContinueIdle /\ StreamIdle /\ SharedIdle
    /\            CountIdle /\ RequestIdle

\* every call of the later sections is idle
LateIdle == ChapterIdle /\ PollIdle /\ SettingsIdle

\* every call further down is idle
MoreIdle == ExtractIdle /\ ConvertIdle /\ StripIdle /\ LateIdle /\ LastIdle

----------------------------------------------------------------------------
(* Specifications *)

ClassifyInit == ClassifyCall /\ BuildIdle /\ ZoomIdle /\ MoreIdle

SpecClassify == ClassifyInit /\ [][ClassifyStep]_vars

BuildInit == BuildCall /\ ClassifyIdle /\ ZoomIdle /\ MoreIdle

SpecBuild == BuildInit /\ [][BuildNext]_vars

ZoomInit == ZoomCall /\ ClassifyIdle /\ BuildIdle /\ MoreIdle

SpecZoom == ZoomInit /\ [][ZoomNext]_vars

\* every call of the first three sections is idle
CoreIdle == ClassifyIdle /\ BuildIdle /\ ZoomIdle

ExtractInit == ExtractCall /\ CoreIdle /\ ConvertIdle /\ StripIdle /\ LateIdle
    /\ LastIdle

SpecExtract == ExtractInit /\ [][ExtractReturn]_vars

ConvertInit == ConvertCall /\ CoreIdle /\ ExtractIdle /\ StripIdle /\ LateIdle
    /\ LastIdle

StripInit == StripCall /\ CoreIdle /\ ExtractIdle /\ ConvertIdle /\ LateIdle
    /\ LastIdle

SpecStrip == StripInit /\ [][StripNext]_vars

\* a call that can take a step takes one: nothing stops the interpreter
\* inside _process_long_strip
SpecStripFair == SpecStrip /\ WF_vars(StripNext)

SpecConvert == ConvertInit /\ [][ConvertNext]_vars

\* every call before the later sections is idle
EarlyIdle == CoreIdle /\ ExtractIdle /\ ConvertIdle /\ StripIdle

ChapterInit == ChapterCall /\ EarlyIdle /\ PollIdle /\ SettingsIdle
    /\ LastIdle

SpecChapter == ChapterInit /\ [][ChapterNext]_vars

PollInit == PollCall /\ EarlyIdle /\ ChapterIdle /\ SettingsIdle
    /\ LastIdle

SpecPoll == PollInit /\ [][PollNext]_vars

\* a call that can take a step takes one; nothing is asked of the converter
\* at the other side of the folder
SpecPollFair == SpecPoll /\ WF_vars(PollStep)

SettingsInit == SettingsCall /\ EarlyIdle /\ ChapterIdle /\ PollIdle
    /\ LastIdle

SpecSettings == SettingsInit /\ [][SettingsReturn]_vars

\* the calls of the last sections
RenderInit == RenderCall /\ EarlyIdle /\ LateIdle /\ LongIdle /\ ContinueIdle
    /\               StreamIdle /\ SharedIdle /\ CountIdle /\ RequestIdle

SpecRender == RenderInit /\ [][RenderNext]_vars

LongInit == LongCall /\ EarlyIdle /\ LateIdle /\ RenderIdle /\ ContinueIdle
    /\             StreamIdle /\ SharedIdle /\ CountIdle /\ RequestIdle

SpecLong == LongInit /\ [][LongNext]_vars

ContinueInit == ContinueCall /\ EarlyIdle /\ LateIdle /\ RenderIdle /\ LongIdle
    /\                 StreamIdle /\ SharedIdle /\ CountIdle /\ RequestIdle

SpecContinue == ContinueInit /\ [][ContinueNext]_vars

StreamInit == StreamCall /\ EarlyIdle /\ LateIdle /\ RenderIdle /\ LongIdle
    /\               ContinueIdle /\ SharedIdle /\ CountIdle /\ RequestIdle

SpecStream == StreamInit /\ [][StreamNext]_vars

SharedInit == SharedCall /\ EarlyIdle /\ LateIdle /\ RenderIdle /\ LongIdle
    /\               ContinueIdle /\ StreamIdle /\ CountIdle /\ RequestIdle

SpecShared == SharedInit /\ [][SharedNext]_vars

CountInit == CountCall /\ EarlyIdle /\ LateIdle /\ RenderIdle /\ LongIdle
    /\              ContinueIdle /\ StreamIdle /\ SharedIdle /\ RequestIdle

SpecCount == CountInit /\ [][CountNext]_vars

RequestInit == RequestCall /\ EarlyIdle /\ LateIdle /\ RenderIdle /\ LongIdle
    /\                ContinueIdle /\ StreamIdle /\ SharedIdle /\ CountIdle

SpecRequest == RequestInit /\ [][RequestNext]_vars

----------------------------------------------------------------------------
(* Properties of classify_cbz_files *)

ChOf(i)  == extract_chapter_number(cbz_paths[i])[1]
DecOf(i) == extract_chapter_number(cbz_paths[i])[2]

\* the paths the loop has taken so far
Taken == 1..(pos - 1)

\* path i is the first of the list with its chapter number
FirstOfChapter(i) == ChOf(i) # None /\ \A j \in 1..(i - 1) : ChOf(j) # ChOf(i)

\* the paths among the first k that collide with an earlier whole or decimal
\* claim and are not decimal themselves, or have no number, in input order
RECURSIVE NotClaiming(_)
NotClaiming(k) ==
    IF k = 0 THEN <<>>
    ELSE IF ChOf(k) = None \/ (~FirstOfChapter(k) /\ ~DecOf(k))
         THEN Append(NotClaiming(k - 1), cbz_paths[k])
         ELSE NotClaiming(k - 1)

\* C1: paths are taken in input order and the first path of a chapter keeps
\* the slot: the slot of every chapter seen so far holds the first path of the
\* list with that chapter number, whatever comes later; a later path of a
\* claimed chapter is put nowhere when its number was a decimal, and is
\* appended to unrecognized when it was not.
C1_FirstWriterWins ==
    /\ DOMAIN recognized = {ChOf(i) : i \in {j \in Taken : ChOf(j) # None}}
    /\ \A i \in Taken : FirstOfChapter(i) => recognized[ChOf(i)] = cbz_paths[i]
    /\ unrecognized = NotClaiming(pos - 1)

\* a call has returned in which a decimal duplicate was dropped and a
\* whole-number duplicate went to unrecognized
C1_Witness ==
    /\ pos = Len(cbz_paths) + 1
    /\ \E i \in Taken : ChOf(i) # None /\ ~FirstOfChapter(i) /\ DecOf(i)
    /\ \E i \in Taken : ChOf(i) # None /\ ~FirstOfChapter(i) /\ ~DecOf(i)

----------------------------------------------------------------------------
(* The reader of the container format *)

\* the fields of the container header; chapterOffset is read for a book only
XtcHeader(f) ==
    [pageCount      |-> ReadU(f, 6, 2),
     hasMetadata    |-> f[10],
     hasChapters    |-> f[12],
     metadataOffset |-> ReadU(f, 16, 8),
     indexOffset    |-> ReadU(f, 24, 8),
     dataOffset     |-> ReadU(f, 32, 8)]

XtcChapterOffset(f) == ReadU(f, 48, 8)

\* chapter count of the metadata block
XtcChapterCount(f) == ReadU(f, XtcHeader(f).metadataOffset + 246, 2)

\* index entry i, counted from 0
IndexEntry(f, i) ==
    LET o == XtcHeader(f).indexOffset + 16 * i
    IN  [offset |-> ReadU(f, o, 8), length |-> ReadU(f, o + 8, 4),
         width  |-> ReadU(f, o + 12, 2), height |-> ReadU(f, o + 14, 2)]

\* the blob an index entry points at
BlobAt(f, e) == SubSeq(f, e.offset + 1, e.offset + e.length)

\* the fields of an XTG blob and its payload
Xtg(b) ==
    [magic         |-> SubSeq(b, 1, 4),
     width         |-> ReadU(b, 4, 2),
     height        |-> ReadU(b, 6, 2),
     payloadLength |-> ReadU(b, 10, 4),
     digest        |-> SubSeq(b, 15, 22),
     payload       |-> SubSeq(b, XtgHeaderSize + 1, Len(b))]

\* pixel (x, y) of a packed bitmap of width w: TRUE is white
UnpackBit(payload, w, x, y) ==
    (payload[y * ((w + 7) \div 8) + (x \div 8) + 1] \div Pow(2, 7 - (x % 8))) % 2 = 1

\* the reader accepts f as a whole container: the header, the tables it
\* declares and every blob of its index lie inside the file
CompleteContainer(f) ==
    /\ Len(f) >= header_size
    /\ SubSeq(f, 1, 4) = XtcMagic
    /\ XtcHeader(f).indexOffset + 16 * XtcHeader(f).pageCount <= Len(f)
    /\ XtcHeader(f).dataOffset <= Len(f)
    /\ XtcHeader(f).hasMetadata = 1 => XtcHeader(f).metadataOffset + 256 <= Len(f)
    /\ \A i \in 0..(XtcHeader(f).pageCount - 1) :
          IndexEntry(f, i).offset + IndexEntry(f, i).length <= Len(f)

----------------------------------------------------------------------------
(* Properties of the builders *)

\* the blob the builder's encoder makes of page i, counted from 1
EncodedPage(i) ==
    IF kind = "manga" THEN _png_to_xtg_bytes(pages[i], size)
    ELSE _image_to_xtg_blob(pages[i], size[1], size[2])

\* C2: in a written container, index entry i describes page i (it points at
\* the blob of page i and repeats its width and height), entry 0 starts at
\* dataOffset, every entry starts where the one before ends, every blob lies
\* inside the file and the last one ends at the end of the file.
C2_IndexDescribesPages ==
    bpc = "done" =>
        /\ XtcHeader(fs).pageCount = Len(pages)
        /\ Len(pages) = 0 => XtcHeader(fs).dataOffset = Len(fs)
        /\ \A i \in 0..(Len(pages) - 1) :
              LET e == IndexEntry(fs, i)
              IN  /\ e.length > 0
                  /\ e.offset + e.length <= Len(fs)
                  /\ BlobAt(fs, e) = EncodedPage(i + 1)
                  /\ e.width = Xtg(BlobAt(fs, e)).width
                  /\ e.height = Xtg(BlobAt(fs, e)).height
                  /\ e.offset = IF i = 0 THEN XtcHeader(fs).dataOffset
                                ELSE IndexEntry(fs, i - 1).offset
                                     + IndexEntry(fs, i - 1).length
                  /\ i = Len(pages) - 1 => e.offset + e.length = Len(fs)

\* a container of two pages or more has been written
C2_Witness == bpc = "done" /\ Len(pages) >= 2

\* the regions written so far, in the order of the writes
RegionsWritten == [i \in 1..Len(wrote) |-> wrote[i].region]

\* where the first write of a region landed
WrittenAt(region) ==
    wrote[CHOOSE i \in 1..Len(wrote) :
            /\ wrote[i].region = region
            /\ \A j \in 1..(i - 1) : wrote[j].region # region].at

\* C3: a written container is header, metadata block and chapter table (book
\* only), index table, blob data, each region starting where the one before
\* ends, and the offsets of the header are the positions the regions were
\* written at: indexOffset + 16 * pageCount = dataOffset and, for a book,
\* metadataOffset = 56, chapterOffset = metadataOffset + 256,
\* indexOffset = chapterOffset + 96 * chapterCount.
C3_LayoutMatchesHeader ==
    bpc = "done" =>
        /\ RegionsWritten =
              IF kind = "manga"
              THEN <<"header", "index">> \o [i \in 1..Len(pages) |-> "blob"]
              ELSE <<"header", "metadata", "chapters", "index", "data">>
        /\ wrote[1].at = 0
        /\ \A i \in 2..Len(wrote) : wrote[i].at = wrote[i - 1].at + wrote[i - 1].len
        /\ wrote[Len(wrote)].at + wrote[Len(wrote)].len = Len(fs)
        /\ XtcHeader(fs).indexOffset = WrittenAt("index")
        /\ XtcHeader(fs).indexOffset + 16 * XtcHeader(fs).pageCount = XtcHeader(fs).dataOffset
        /\ XtcHeader(fs).pageCount = Len(pages)
        /\ IF kind = "manga"
           THEN /\ XtcHeader(fs).hasMetadata = 0 /\ XtcHeader(fs).hasChapters = 0
                /\ Len(pages) > 0 => XtcHeader(fs).dataOffset = WrittenAt("blob")
           ELSE /\ XtcHeader(fs).hasMetadata = 1 /\ XtcHeader(fs).hasChapters = 1
                /\ XtcHeader(fs).metadataOffset = 56
                /\ XtcHeader(fs).metadataOffset = WrittenAt("metadata")
                /\ XtcChapterOffset(fs) = XtcHeader(fs).metadataOffset + 256
                /\ XtcChapterOffset(fs) = WrittenAt("chapters")
                /\ XtcChapterCount(fs) = Len(chapters)
                /\ XtcHeader(fs).indexOffset = XtcChapterOffset(fs) + 96 * XtcChapterCount(fs)
                /\ XtcHeader(fs).dataOffset = WrittenAt("data")

\* a book with chapters and pages has been written
C3_Witness ==
    bpc = "done" /\ kind = "book" /\ Len(chapters) >= 2 /\ Len(pages) >= 1

\* every page has the declared size
UniformPages == \A i \in 1..Len(pages) : ImageSize(pages[i]) = size

\* the bit the encoder of the builder packs for pixel (x, y) of page i
PackedBit(i, x, y) ==
    IF kind = "manga" THEN PixelAt(pages[i], x, y) >= threshold
    ELSE PixelAt(Convert1(pages[i]), x, y) # 0

\* C4: reading a written container back (index entry, blob header, payload)
\* gives, for every page of a list of pages of the declared size, the size of
\* the page and for each pixel the bit the encoder packed, in page order.
C4_RoundTrip ==
    (bpc = "done" /\ UniformPages) =>
        \A i \in 1..Len(pages) :
            LET e == IndexEntry(fs, i - 1)
                b == BlobAt(fs, e)
            IN  /\ Xtg(b).magic = XtgMagic
                /\ e.width = pages[i].w /\ e.height = pages[i].h
                /\ Xtg(b).width = pages[i].w /\ Xtg(b).height = pages[i].h
                /\ Len(Xtg(b).payload) = ((pages[i].w + 7) \div 8) * pages[i].h
                /\ \A x \in 0..(pages[i].w - 1), y \in 0..(pages[i].h - 1) :
                      UnpackBit(Xtg(b).payload, Xtg(b).width, x, y)
                          = PackedBit(i, x, y)

\* a container of two different pages of the declared size has been written
C4_Witness ==
    /\ bpc = "done" /\ UniformPages
    /\ Len(pages) >= 2 /\ pages[1] # pages[2]

\* a page has dimensions other than the declared size
Mismatched == \E i \in 1..Len(pages) : ImageSize(pages[i]) # size

C6_NoPartialFile == fs = NoFile \/ CompleteContainer(fs)

\* C7: every XTG blob made declares a payload of ceil(width / 8) * height
\* bytes and has exactly that many bytes after its 22-byte header.
C7_PayloadLength ==
    \A i \in 1..Len(xtg_blobs) :
        LET b == xtg_blobs[i]
        IN  /\ Xtg(b).payloadLength = ((Xtg(b).width + 7) \div 8) * Xtg(b).height
            /\ Len(b) = XtgHeaderSize + Xtg(b).payloadLength

\* both encoders have made a blob whose width is no multiple of 8
C7_Witness ==
    /\ kind = "book" /\ Len(xtg_blobs) >= 2
    /\ Xtg(xtg_blobs[1]).width % 8 # 0 /\ Xtg(xtg_blobs[1]).height > 1

\* C8: the digest field of every blob of a written container is the first 8
\* bytes of the content hash of its payload.
C8_DigestOfPayload ==
    bpc = "done" =>
        \A i \in 0..(XtcHeader(fs).pageCount - 1) :
            LET b == BlobAt(fs, IndexEntry(fs, i))
            IN  Xtg(b).digest = Md5Digest8(Xtg(b).payload)

\* the bytes of the book metadata block that hold the creation time
TimestampBytes == (metadata_off + 240)..(metadata_off + 243)

\* C9: the second build of the same inputs writes the bytes the first build
\* wrote, but for the 4 bytes of the creation time of a book.
C9_SameBytes ==
    (bpc = "done" /\ run = 2) =>
        /\ Len(fs) = Len(first_out)
        /\ \A k \in 1..Len(fs) :
              fs[k] # first_out[k] => (kind = "book" /\ (k - 1) \in TimestampBytes)

\* a book has been built twice, at different times
C9_Witness ==
    /\ bpc = "done" /\ run = 2 /\ kind = "book" /\ Len(pages) >= 1
    /\ fs # first_out

----------------------------------------------------------------------------
(* Properties of the zoom transform *)

\* 1 - shift / band_height for the shift the loop ended with
OverlapFraction == FSub(FInt(1), FDiv(shift, overlapping_height))

\* C10: once the while loop has ended, consecutive bands overlap by at least
\* 5 % of the band height, or there are 26 bands.
C10_OverlapOrCap ==
    zpc \in {"bands", "done"} =>
        \/ FLeq(Frac(5, 100), OverlapFraction)
        \/ num_segments = 26

\* the loop has added bands and ended below the cap
C10_Witness ==
    /\ zpc = "done"
    /\ num_segments > desired_segments /\ num_segments < MaxSegments

\* each band starts no later than the band before it ends
BandsTouch ==
    \A v \in 2..Len(segments) : segments[v][1] <= segments[v - 1][2]

\* the source is no taller than 26 bands: H <= 26 * band_height, for a
\* positive target size
WithinCap ==
    /\ tw > 0 /\ th > 0
    /\ FLeq(FInt(zimg.height), FMul(FInt(MaxSegments), overlapping_height))

----------------------------------------------------------------------------
(* Properties of the chapter records *)

\* C12: the chapter records of a book are in ascending order, each with
\* start_page <= end_page, the first starting at page 0, each next one
\* starting at the previous end_page + 1 and the last ending at
\* page_count - 1, whatever the number of pages a chapter renders to.
C12_ChapterRanges ==
    (kind = "book" /\ bpc # "idle" /\ Len(chapters) > 0) =>
        /\ chapters[1][2] = 0
        /\ chapters[Len(chapters)][3] = Len(pages) - 1
        /\ \A c \in 1..Len(chapters) : chapters[c][2] <= chapters[c][3]
        /\ \A c \in 2..Len(chapters) :
              chapters[c][2] = chapters[c - 1][3] + 1

----------------------------------------------------------------------------
(* Properties of extract_chapter_number *)

\* the name of the file without directory and without its .cbz ending
CbzBase ==
    LET stem    == SubSeq(ecn_in, 1, Len(ecn_in) - 4)
        slashes == {i \in 1..Len(stem) : stem[i] = "/"}
        from    == IF slashes = {} THEN 1
                   ELSE 1 + CHOOSE i \in slashes : \A j \in slashes : j <= i
    IN  SubSeq(stem, from, Len(stem))

\* the keywords in the order of the claim
Keywords ==
    << <<"c", "h", "a", "p", "t", "e", "r">>, <<"c", "h", "p">>, <<"c", "h">> >>

\* s[a..b-1] is white space with at most one of . _ - in it
IsGap(s, a, b) ==
    /\ \A k \in a..(b - 1) : IsSpace(s[k]) \/ IsSep(s[k])
    /\ Cardinality({k \in a..(b - 1) : IsSep(s[k])}) <= 1

\* keyword kw stands at i of s, whatever the case of its letters, and a
\* number follows it at d
KeywordAt(s, kw, i, d) ==
    /\ i + Len(kw) <= d /\ d <= Len(s)
    /\ IsDigit(s[d])
    /\ \A j \in 1..Len(kw) : Lower(s[i + j - 1]) = kw[j]
    /\ IsGap(s, i + Len(kw), d)

\* the pairs <<i, d>> at which keyword number k stands before a number
KeywordHits(s, k) ==
    {h \in (1..Len(s)) \X (1..Len(s)) : KeywordAt(s, Keywords[k], h[1], h[2])}

\* the end (exclusive) of the run of digits that starts at d
RunEnd(s, d) ==
    CHOOSE e \in (d + 1)..(Len(s) + 1) :
        /\ \A k \in d..(e - 1) : IsDigit(s[k])
        /\ e = Len(s) + 1 \/ ~IsDigit(s[e])

\* the number that starts at d of s: its integer part, and whether a
\* fractional part follows
NumberAt(s, d) ==
    LET e == RunEnd(s, d)
    IN  << ParseInt(SubSeq(s, d, e - 1)),
           e + 1 <= Len(s) /\ s[e] = "." /\ IsDigit(s[e + 1]) >>

\* C13: when a keyword is followed by a number somewhere in the name, the
\* call returns the number that follows the leftmost occurrence of the
\* first of chapter, chp, ch that has one: its integer part, and TRUE
\* exactly when it has a fractional part; the other numbers of the name
\* do not matter.
C13_KeywordNumber ==
    epc = "done" =>
        \A k \in 1..Len(Keywords) :
            ( /\ KeywordHits(CbzBase, k) # {}
              /\ \A j \in 1..(k - 1) : KeywordHits(CbzBase, j) = {} )
            => LET hits == KeywordHits(CbzBase, k)
                   h    == CHOOSE x \in hits : \A y \in hits : x[1] <= y[1]
               IN  ecn_out = NumberAt(CbzBase, h[2])

\* a name with the keyword ch before a number and, after it, the keyword
\* chapter before another number: the call has returned the second
C13_Witness ==
    /\ epc = "done"
    /\ KeywordHits(CbzBase, 1) # {} /\ KeywordHits(CbzBase, 3) # {}
    /\ \E a \in KeywordHits(CbzBase, 1), b \in KeywordHits(CbzBase, 3) :
          /\ b[1] < a[1] /\ NumberAt(CbzBase, a[2]) # NumberAt(CbzBase, b[2])
          /\ ecn_out = NumberAt(CbzBase, a[2])

\* no keyword of the claim is followed by a number
NoKeyword == \A k \in 1..Len(Keywords) : KeywordHits(CbzBase, k) = {}

\* the words of a volume or book token
VolumeWords ==
    { <<"v", "o", "l">>, <<"v", "o", "l", "u", "m", "e">>,
      <<"b", "o", "o", "k">>, <<"b", "k">> }

\* the end (exclusive) of the number that starts at d, fraction included
NumberEnd(s, d) ==
    LET e == RunEnd(s, d)
    IN  IF e + 1 <= Len(s) /\ s[e] = "." /\ IsDigit(s[e + 1])
        THEN RunEnd(s, e + 1) ELSE e

\* the positions of s inside a volume or book token with its number
InVolumeToken(s) ==
    LET hits == {h \in (1..Len(s)) \X (1..Len(s)) :
                    \E w \in VolumeWords : KeywordAt(s, w, h[1], h[2])}
    IN  UNION {h[1]..(NumberEnd(s, h[2]) - 1) : h \in hits}

\* the characters of s at the positions of keep, in order
Pick(s, keep) ==
    [k \in 1..Cardinality(keep) |->
        s[CHOOSE i \in keep : Cardinality({j \in keep : j < i}) = k - 1]]

\* the name with its volume and book tokens taken out
Remains == Pick(CbzBase, (1..Len(CbzBase)) \ InVolumeToken(CbzBase))

\* position i of s starts a run of digits
RunStart(s, i) == IsDigit(s[i]) /\ (i = 1 \/ ~IsDigit(s[i - 1]))

\* the start of the run of digits that ends at position j
RunBegin(s, j) ==
    CHOOSE i \in 1..j : RunStart(s, i) /\ \A k \in i..j : IsDigit(s[k])

\* the positions at which a numeric token of s starts: the starts of the
\* runs of digits that are not the fractional part of the token before
TokenStarts(s) ==
    LET start[i \in 1..Len(s)] ==
            /\ RunStart(s, i)
            /\ ~( /\ i >= 3 /\ s[i - 1] = "." /\ IsDigit(s[i - 2])
                  /\ start[RunBegin(s, i - 2)] )
    IN  {i \in 1..Len(s) : start[i]}

\* a letter of the alphabet of names
IsLetter(c) == ~IsDigit(c) /\ c \notin {" ", "_", ".", "-", "/"}

\* the token that starts at i of s has no letter next to it
Standalone(s, i) ==
    /\ i = 1 \/ ~IsLetter(s[i - 1])
    /\ NumberEnd(s, i) > Len(s) \/ ~IsLetter(s[NumberEnd(s, i)])

\* the number of the last token of s that starts at one of the positions
\* of the set starts, or none
LastNumber(s, starts) ==
    IF starts = {} THEN <<None, FALSE>>
    ELSE NumberAt(s, CHOOSE i \in starts : \A j \in starts : j <= i)

\* C14 as stated: without a keyword, the call returns the last numeric
\* token of what remains once the volume and book tokens are removed,
\* a token with a letter next to it not counting, and none exactly when
\* there is no such token.
C14_LastStandalone ==
    (epc = "done" /\ NoKeyword) =>
        LET r == Remains
        IN  ecn_out = LastNumber(r, {i \in TokenStarts(r) : Standalone(r, i)})

\* C14 amended: without a keyword, the call returns the last numeric
\* token of what remains once the volume and book tokens are removed,
\* letters next to a token or not, and none exactly when no digit
\* remains.
C14_LastNumber ==
    (epc = "done" /\ NoKeyword) =>
        LET r == Remains
        IN  /\ ecn_out = LastNumber(r, TokenStarts(r))
            /\ ecn_out[1] = None <=> \A i \in 1..Len(r) : ~IsDigit(r[i])

\* a name with a volume token, then two numbers, the last next to a
\* letter: the call has returned the last
C14_Witness ==
    /\ epc = "done" /\ NoKeyword
    /\ InVolumeToken(CbzBase) # {}
    /\ Cardinality(TokenStarts(Remains)) >= 1
    /\ \E i \in TokenStarts(Remains) :
          /\ ~Standalone(Remains, i)
          /\ \A j \in TokenStarts(Remains) : j <= i
    /\ ecn_out[1] # None

----------------------------------------------------------------------------
(* Properties of convert_chapters *)

\* the k-th smallest chapter number of the map
KthSmallest(k) ==
    CHOOSE c \in DOMAIN chapter_map :
        Cardinality({d \in DOMAIN chapter_map : d < c}) = k - 1

\* C15: the k-th event (k = 1..N) has current = k, total = N and names the
\* chapter with the k-th smallest number; when it has been yielded the
\* chapters before it are converted, in order, and its own is not before
\* the generator is resumed; event N + 1 has current = total = N and is
\* yielded with every chapter converted; current never decreases; a
\* generator that is exhausted has yielded N + 1 events.
C15_StatusEvents ==
    cpc # "idle" =>
        /\ Len(events) <= total + 1
        /\ \A k \in 1..Len(events) :
              /\ events[k].total = total
              /\ events[k].current = IF k <= total THEN k ELSE total
              /\ k <= total =>
                    /\ events[k].ch_num = KthSmallest(k)
                    /\ events[k].filename = Basename(chapter_map[KthSmallest(k)])
              /\ k > 1 => events[k - 1].current <= events[k].current
        /\ \A k \in 1..Len(converted) : converted[k] = KthSmallest(k)
        /\ Len(converted) <= Len(events)
        /\ Len(events) <= total => Len(converted) >= Len(events) - 1
        /\ cpc = "yielded" => Len(converted) = Len(events) - 1
        /\ Len(events) = total + 1 => Len(converted) = total
        /\ cpc = "done" => Len(events) = total + 1

\* the generator of a map of three chapters is exhausted
C15_Witness ==
    /\ cpc = "done"
    /\ total = 3
    /\ Len(events) = 4 /\ Len(converted) = 3

----------------------------------------------------------------------------
(* Properties of the long-strip transform *)

\* the step of the claim: target_height - floor(target_height * overlap_pct),
\* or 10 when that is not positive
ClaimedStep ==
    LET s == target_h - ((target_h * strip_settings.overlap) \div 100)
    IN  IF s <= 0 THEN 10 ELSE s

\* ceil(a / b) for b > 0
CeilDiv(a, b) == (a + b - 1) \div b

MetaOfRow(y) ==
    CHOOSE k \in 1..Len(img_metadata) :
        img_metadata[k].start_y <= y /\ y < img_metadata[k].end_y

\* the start of the window of the j-th page
WinStart(j) == (j - 1) * step

\* C17: the scaled images lie one after the other on the virtual strip, in
\* input order and without gap or overlap, and row r of each page is row
\* win_start + r of the virtual strip, or white from the end of the strip
\* on.
C17_PagesShowStrip ==
    spc \in {"scale", "loop", "done"} =>
        /\ \A k \in 1..Len(img_metadata) :
              LET meta == img_metadata[k]
              IN  /\ meta.start_y = IF k = 1 THEN 0 ELSE img_metadata[k - 1].end_y
                  /\ meta.end_y = meta.start_y + meta.h
                  /\ meta.h = NewHeight(strip_images[k]) /\ meta.h >= 1
                  /\ ImageSize(meta.img) = <<target_w, meta.h>>
        /\ \A j \in 1..Len(strip_pages) :
              /\ ImageSize(strip_pages[j]) = <<target_w, target_h>>
              /\ \A r \in 0..(target_h - 1), x \in 0..(target_w - 1) :
                    PixelAt(strip_pages[j], x, r) =
                        IF WinStart(j) + r < total_virtual_height
                        THEN LET meta == img_metadata[MetaOfRow(WinStart(j) + r)]
                             IN  PixelAt(meta.img, x, WinStart(j) + r - meta.start_y)
                        ELSE 255

\* a call has returned pages of which one shows the end of one image above
\* the start of the next, and one starts inside an image and ends below
\* the strip
C17_Witness ==
    /\ spc = "done"
    /\ Len(img_metadata) = 2
    /\ \E j \in 1..Len(strip_pages) :
          /\ WinStart(j) < img_metadata[1].end_y
          /\ WinStart(j) + target_h > img_metadata[2].start_y
    /\ \E j \in 1..Len(strip_pages) :
          /\ WinStart(j) > img_metadata[2].start_y
          /\ WinStart(j) + target_h > total_virtual_height

----------------------------------------------------------------------------
(* Properties of convert_chapter *)

\* name a comes before name b in lexicographic order
LexBefore(a, b) ==
    \E k \in 1..Len(b) :
        /\ k <= Len(a) + 1
        /\ \A j \in 1..(k - 1) : a[j] = b[j]
        /\ k = Len(a) + 1 \/ Ord(a[k]) < Ord(b[k])

\* the image entries of the archive that decode
DecodedEntries ==
    {f \in DOMAIN archive : IsImageFile(f) /\ archive[f] # "broken"}

----------------------------------------------------------------------------
(* Properties of convert_pdf_to_epub *)

\* the call is over
PollOver == ppc \in {"returned", "timeout", "error"}

\* the looks so far are at most ceil(timeout / poll_interval), written
\* without the division
PollsInBudget == polls * poll_interval < timeout + poll_interval

\* a returned path is that of an output file that is not empty
ReturnsReady == ppc = "returned" => epub_out = "ready"

\* C19: for every poll_interval and timeout a call of convert_pdf_to_epub
\* comes to an end, after at most ceil(timeout / poll_interval) looks at
\* the output file, and it ends by returning the path of a non-empty file,
\* by raising TimeoutError or by another failure.
C19_PollingEnds ==
    /\ [](ReturnsReady /\ (polls > 0 => PollsInBudget))
    /\ <>PollOver

\* _parse_settings: what the declared bounds ask of the returned dict
InBounds(s) ==
    /\ s.target_width > 0
    /\ s.target_height > 0
    /\ 0 <= s.contrast /\ s.contrast <= 8
    /\ 0 <= s.overlap /\ s.overlap <= 90

\* C20: for every raw the dict _parse_settings returns has target_width > 0,
\* target_height > 0, 0 <= contrast <= 8 and 0 <= overlap <= 90, and every
\* key absent from raw has its default.
C20_SettingsInBounds ==
    qpc = "done" =>
        /\ InBounds(parsed)
        /\ \A k \in DOMAIN DEFAULT_SETTINGS \ DOMAIN raw :
              parsed[k] = DEFAULT_SETTINGS[k]

----------------------------------------------------------------------------
(* Properties of render_book *)

\* C21: render_book's temporary directory exists only while the generator
\* is suspended at a progress event: it is gone at the result event and
\* after it, after a chapter raised and after the consumer stopped
\* iterating, and a generator that never created one has none.
C21_RenderDirRemoved ==
    /\ render_dir = "exists" <=> rpc = "progress"
    /\ rpc \in {"result", "exhausted"} => render_dir = "removed"
    /\ rpc \in {"failed", "closed"} /\ ch_idx > 0 => render_dir = "removed"

\* the consumer stopped iterating after the second progress event of a
\* book of three chapters
C21_Witness ==
    /\ rpc = "closed"
    /\ Len(chapters_data) = 3
    /\ ch_idx = 2
    /\ render_dir = "removed"

----------------------------------------------------------------------------
(* Properties of the crop boxes of _process_zoom_page *)

\* shift * v and height - shift * (num_segments - v - 1) for band v
TopExact(v) == FMul(shift, FInt(v))
BottomExact(v) ==
    FSub(FInt(zimg.height), FMul(shift, FInt(num_segments - v - 1)))

\* k is a nearest integer to the fraction x
IsNearest(k, x) == 2 * Abs(k * x[2] - x[1]) <= x[2]

\* k is the fraction x with its fractional part dropped
IsCut(k, x) ==
    IF x[1] >= 0 THEN k * x[2] <= x[1] /\ x[1] < (k + 1) * x[2]
    ELSE (k - 1) * x[2] < x[1] /\ x[1] <= k * x[2]

\* C22, as claimed: band v is cropped from round(shift * v) to
\* round(height - shift * (num_segments - v - 1)).
C22_BandsRounded ==
    \A i \in 1..Len(segments) :
        /\ IsNearest(segments[i][1], TopExact(i - 1))
        /\ IsNearest(segments[i][2], BottomExact(i - 1))

\* C22, as the code has it: band v is cropped from int(shift * v) to
\* int(height - shift * (num_segments - v - 1)), the fractional part
\* dropped, for positive and for negative values.
C22_BandsCut ==
    \A i \in 1..Len(segments) :
        /\ IsCut(segments[i][1], TopExact(i - 1))
        /\ IsCut(segments[i][2], BottomExact(i - 1))

\* a call has returned bands of which one has a top and one a bottom more
\* than a half above the integer below
C22_Witness ==
    /\ zpc = "done"
    /\ \E i \in 1..Len(segments) :
          TopExact(i - 1)[1] > 0 /\ ~IsNearest(segments[i][1], TopExact(i - 1))
    /\ \E i \in 1..Len(segments) :
          BottomExact(i - 1)[1] > 0
          /\ ~IsNearest(segments[i][2], BottomExact(i - 1))

\* C24: for a target size that is positive, every band that is cropped
\* lies inside the image and has at least one row:
\* 0 <= top < bottom <= height.
C24_BandsInside ==
    tw > 0 /\ th > 0 =>
        \A i \in 1..Len(segments) :
            /\ 0 <= segments[i][1]
            /\ segments[i][1] < segments[i][2]
            /\ segments[i][2] <= zimg.height

----------------------------------------------------------------------------
(* Properties of convert_chapter in long-strip mode *)

\* once _process_long_strip has run, every image has been stretched once
\* with the contrast of s (not at all for contrast 0); the zoom settings
\* are another dict than s, with contrast 0 and the dithering of s
StretchedOnce ==
    lpc \in {"main", "copy", "zoom", "done"} =>
        /\ \A i \in DOMAIN stretched :
              stretched[i] = IF heap[s_ref].contrast = 0 THEN <<>>
                             ELSE <<heap[s_ref].contrast>>
        /\ lpc \in {"zoom", "done"} =>
              /\ zoom_ref # s_ref
              /\ heap[zoom_ref].contrast = 0
              /\ heap[zoom_ref].dithering = heap[s_ref].dithering

\* C23: in long-strip mode every image is stretched exactly once, by
\* _process_long_strip with the contrast of the settings, and the zoom
\* passes, run with contrast 0 on a copy of the settings, add no stretch;
\* no step changes s or the dict it names.
C23_ContrastOnce ==
    /\ []StretchedOnce
    /\ [][s_ref' = s_ref /\ heap'[s_ref] = heap[s_ref]]_vars

\* a chapter of two images and two pages has been converted with a
\* contrast that is not 0
C23_Witness ==
    /\ lpc = "done"
    /\ Len(stretched) = 2
    /\ zoomed = 2
    /\ heap[s_ref].contrast = 4

----------------------------------------------------------------------------
(* Accounting of the paths of classify_cbz_files *)

\* how often path p is among the taken paths, among the values of
\* recognized, in unrecognized, and among the taken paths that have a
\* decimal number whose chapter an earlier path has
TimesTaken(p) == Cardinality({i \in Taken : cbz_paths[i] = p})
TimesRecognized(p) == Cardinality({c \in DOMAIN recognized : recognized[c] = p})
TimesUnrecognized(p) ==
    Cardinality({i \in DOMAIN unrecognized : unrecognized[i] = p})
TimesDropped(p) ==
    Cardinality({i \in Taken :
        /\ cbz_paths[i] = p
        /\ DecOf(i)
        /\ \E j \in 1..(i - 1) : ChOf(j) = ChOf(i)})

\* seq u is made of items of seq l, in the order of l
IsSubSeq(u, l) ==
    \E at \in [DOMAIN u -> DOMAIN l] :
        /\ \A i \in DOMAIN u : u[i] = l[at[i]]
        /\ \A i, j \in DOMAIN u : i < j => at[i] < at[j]

\* C25: every path taken is in one place: as often as a path was taken it
\* is a value of recognized, an item of unrecognized or a dropped decimal
\* whose chapter was claimed before; no path is the value of two chapters;
\* unrecognized is in input order.
C25_EveryPathAccounted ==
    /\ \A i \in Taken :
          LET p == cbz_paths[i]
          IN  TimesTaken(p) =
                  TimesRecognized(p) + TimesUnrecognized(p) + TimesDropped(p)
    /\ \A c, d \in DOMAIN recognized : recognized[c] = recognized[d] => c = d
    /\ \A c \in DOMAIN recognized : \E i \in Taken : cbz_paths[i] = recognized[c]
    /\ IsSubSeq(unrecognized, SubSeq(cbz_paths, 1, pos - 1))

\* a call has returned with three paths in three places
C25_Witness ==
    /\ pos = Len(cbz_paths) + 1
    /\ Len(cbz_paths) = 3
    /\ Cardinality(DOMAIN recognized) = 1
    /\ Len(unrecognized) = 1
    /\ \E i \in Taken : TimesDropped(cbz_paths[i]) = 1

----------------------------------------------------------------------------
(* Properties of convert_continue *)

\* C26: every chapter of the session's recognized map is in the map that
\* is converted, with the path it was recognized with.
C26_RecognizedKept ==
    kpc = "convert" =>
        \A c \in DOMAIN session.recognized :
            c \in DOMAIN final_map /\ final_map[c] = session.recognized[c]

----------------------------------------------------------------------------
(* Properties of the conversion streams *)

\* the places of done and error among the events emitted
TerminalAt == {i \in DOMAIN emitted : emitted[i] \in {"done", "error"}}

\* C27: a stream emits at most one event done or error and nothing after
\* it; a stream that has run to its end has emitted exactly one; done of a
\* manga stream comes after every chapter was converted, the zip written
\* and zip_path and manga_title stored in the session.
C27_OneTerminalEvent ==
    /\ Cardinality(TerminalAt) <= 1
    /\ TerminalAt \subseteq {Len(emitted)}
    /\ tpc = "ended" => TerminalAt = {Len(emitted)}
    /\ \A i \in DOMAIN emitted :
          emitted[i] = "done" =>
              /\ s_conv = s_total
              /\ zipped
              /\ skind = "manga" => stored

\* a manga stream of two chapters has run to its end with done
C27_Witness ==
    /\ tpc = "ended"
    /\ skind = "manga"
    /\ s_total = 2
    /\ emitted[Len(emitted)] = "done"

----------------------------------------------------------------------------
(* Properties of concurrent calls of convert_pdf_to_epub *)

\* C28: the EPUB a call returns was made from the PDF that call staged,
\* and the staged input of a call that is still waiting is in input/
\* until the call itself removes it.
C28_OwnEpubReturned ==
    \A c \in DOMAIN call_pc :
        /\ call_pc[c] = "returned" => call_result[c] = c
        /\ call_pc[c] = "loop" => input_dir[pdf_name[c]] # Absent

----------------------------------------------------------------------------
(* Properties of the builders by counts *)

\* the call has a count that "H" does not hold: the pages, or a start or end
\* page of a chapter
CountBeyond ==
    \/ n_pages >= UShortEnd
    \/ \E c \in 1..Len(c_chapters) :
          \/ ~(c_chapters[c][2] \in 0..(UShortEnd - 1))
          \/ ~(c_chapters[c][3] \in 0..(UShortEnd - 1))

\* C29: in a written container the 16-bit pageCount of the header is the
\* number of index entries and the number of blobs of the file, all of them
\* len(pages); when the number of pages or a start or end page of a chapter
\* does not fit in 16 bits the call ends in an error and the output file is
\* never opened, so that no count reduced modulo 2^16 is stored.
C29_CountStoredWhole ==
    /\ npc = "done" =>
          /\ ReadU(c_file.pageCount, 0, 2) = n_pages
          /\ c_file.index = index_entry_size * n_pages
          /\ c_file.blobs = n_pages
    /\ CountBeyond => c_file = Unopened /\ npc # "done"
    /\ npc = "error" => CountBeyond /\ c_file = Unopened

\* a call whose pages are beyond the 16-bit range, every chapter record
\* within it, has encoded its pages and ended in the error of the header
C29_Witness ==
    /\ npc = "error" /\ n_pages >= UShortEnd /\ n_blobs = n_pages
    /\ \A c \in 1..Len(c_chapters) :
          c_chapters[c][2] \in 0..(UShortEnd - 1)
          /\ c_chapters[c][3] \in 0..(UShortEnd - 1)

----------------------------------------------------------------------------
(* Properties of the /convert request *)

\* C30: a /convert request that ends in an error response, 400 or 500, leaves
\* no work directory behind: the directory made at the start of the request
\* is removed before the response unless a stored session or a running
\* stream holds it.
C30_ErrorLeavesNoWorkDir ==
    mpc = "responded" /\ http_status \in {400, 500} /\ ~in_session
        => work_dir = "removed"

\* the part of it the code keeps: the answer 500 of the except clause
ExceptRemoves ==
    mpc = "responded" /\ http_status = 500 /\ ~in_session
        => work_dir = "removed"

====
